---- MODULE Spec2Model ----
(***************************************************************************)
(* Model of the content-annotation engine of assets/js/script.js:          *)
(* AutoEnhance (glossary registry, annotation pass), with the page as a    *)
(* DOM tree and every string a sequence of one-character strings, so that  *)
(* regular-expression matching, HTML escaping and the parse performed by   *)
(* an innerHTML assignment are computed the way the browser computes them. *)
(***************************************************************************)
EXTENDS Integers, Sequences, FiniteSets, TLC

VARIABLES
    pathname,     \* window.location.pathname
    glossary,     \* the .definition-entry elements of the glossary document
    fetchOutcome, \* how the glossary request ended: "none" before it has
    definitions,  \* AutoEnhance.definitions, in Object.entries order
    doc,          \* the page's DOM tree (the body element)
    doc0,         \* the DOM tree before the latest annotation pass
    pc,           \* position of AutoEnhance.init
    passes,       \* number of annotation passes run so far
    fetches,      \* number of glossary requests issued so far
    loadFailed,   \* the glossary load ended without a registry
    initError,    \* an error has left AutoEnhance.init
    defsAtLoad,   \* AutoEnhance.definitions when loadDefinitions returned
    popups,       \* number of popup elements created
    popupShown,   \* the popup element carries the class "show"
    popupTimer,   \* the ids of the pending timers that show the popup
    timeout,      \* LinkPopup.timeout: the id of the latest timer, 0 before
    activeLink,   \* LinkPopup.activeLink
    popupStyle,   \* style.top and style.left of the popup
    view,         \* the window and the rectangle of the link under the pointer
    defaultPrevented, \* the latest click on a link had its navigation suppressed
    location,     \* where the page has navigated to, <<>> while it is shown
    popupContent, \* title, excerpt and go-to destination of the popup
    listeners,    \* per link (by path), how often the handlers were attached
    wide,         \* the viewport is wider than 1100px
    isTouch,      \* LinkPopup.isTouchDevice
    events,       \* number of user events handled so far
    hoverHandlers,   \* per sidenote, its pairs of mouseenter/mouseleave handlers
    focusHandlers,   \* per number label, its pairs of focus/blur handlers
    desktopHandlers, \* the sidenotes that have the property _desktopHandlers
    toggleHandlers,  \* the toggle buttons that have their click handler
    mqPending,       \* a resize has run the first media query's callback only
    pointerOver,     \* the sidenote the pointer is over, or NoPath
    numberFocused    \* the number label that has the focus, or NoPath

vars == <<pathname, glossary, fetchOutcome, definitions, doc, doc0, pc, passes,
          fetches, loadFailed, initError, defsAtLoad, popups, popupShown,
          popupTimer, popupContent, listeners, wide, isTouch, events,
          timeout, activeLink, popupStyle, view, defaultPrevented, location,
          hoverHandlers, focusHandlers, desktopHandlers, toggleHandlers, mqPending,
          pointerOver, numberFocused>>

\* The state the sidenote modules keep outside the document
sidenoteVars == <<hoverHandlers, focusHandlers, desktopHandlers, toggleHandlers, mqPending>>

\* Where the pointer and the keyboard focus are among the sidenotes
pointerVars == <<pointerOver, numberFocused>>

----------------------------------------------------------------------------
(* Strings                                                                 *)

LowerLetters == <<"a","b","c","d","e","f","g","h","i","j","k","l","m","n","o","p","q","r","s","t","u","v","w","x","y","z">>
UpperLetters == <<"A","B","C","D","E","F","G","H","I","J","K","L","M","N","O","P","Q","R","S","T","U","V","W","X","Y","Z">>
DigitsUnderscore == <<"0","1","2","3","4","5","6","7","8","9","_">>

Range(f) == {f[i] : i \in DOMAIN f}

IsAlpha(c) == c \in Range(LowerLetters) \cup Range(UpperLetters)

\* \w of a JavaScript regular expression without the u flag
IsWordChar(c) == IsAlpha(c) \/ c \in Range(DigitsUnderscore)

IsSpace(c) == c \in {" ", "\n", "\t"}

\* String.prototype.toLowerCase, one character
LowerChar(c) ==
    IF c \in Range(UpperLetters)
    THEN LowerLetters[CHOOSE i \in DOMAIN UpperLetters : UpperLetters[i] = c]
    ELSE c

toLowerCase(s) == [i \in DOMAIN s |-> LowerChar(s[i])]

\* String.prototype.trim
trim(s) ==
    LET keep == {i \in DOMAIN s : ~IsSpace(s[i])} IN
    IF keep = {} THEN <<>>
    ELSE SubSeq(s, CHOOSE i \in keep : \A j \in keep : i <= j,
                   CHOOSE i \in keep : \A j \in keep : j <= i)

StartsWithAt(s, i, sub) ==
    /\ i + Len(sub) - 1 <= Len(s)
    /\ \A j \in 1..Len(sub) : s[i + j - 1] = sub[j]

\* String.prototype.includes
includes(s, sub) == \E i \in 1..(Len(s) + 1) : StartsWithAt(s, i, sub)

\* The concatenation of the sequences ss[lo], ..., ss[hi]
RECURSIVE ConcatRange(_,_,_)
ConcatRange(ss, lo, hi) ==
    IF lo > hi THEN <<>>
    ELSE IF lo = hi THEN ss[lo]
    ELSE LET mid == (lo + hi) \div 2
         IN ConcatRange(ss, lo, mid) \o ConcatRange(ss, mid + 1, hi)

Concat(ss) == ConcatRange(ss, 1, Len(ss))

\* A string rewritten character by character
MapChars(s, F(_)) == Concat([i \in DOMAIN s |-> F(s[i])])

FilterSeq(seq, Keep(_)) ==
    Concat([i \in DOMAIN seq |-> IF Keep(seq[i]) THEN <<seq[i]>> ELSE <<>>])

Min(S) == CHOOSE x \in S : \A y \in S : x <= y
Max(S) == CHOOSE x \in S : \A y \in S : y <= x

----------------------------------------------------------------------------
(* The regular expression \b(term)\b with the g flag                       *)

RegexMeta == {".","*","+","?","^","$","{","}","(",")","|","[","]","\\"}

\* escapeRegex: every metacharacter gets a backslash in front of it
escapeRegex(string) ==
    MapChars(string, LAMBDA c : IF c \in RegexMeta THEN <<"\\", c>> ELSE <<c>>)

\* The number of backslashes that stand directly in front of position i
BackslashesBefore(src, i) ==
    Max({k \in 0..(i - 1) : \A j \in (i - k)..(i - 1) : src[j] = "\\"})

\* The atoms of a pattern source: "\c" is the literal c, "." is any character
\* but a line break, any other character is itself. (The other metacharacters
\* never reach the pattern unescaped in the strings of this model.)
Atoms(src) ==
    Concat([i \in DOMAIN src |->
        IF BackslashesBefore(src, i) % 2 = 1 THEN <<[any |-> FALSE, c |-> src[i]]>>
        ELSE IF src[i] = "\\" THEN <<>>
        ELSE <<[any |-> src[i] = ".", c |-> src[i]]>>])

AtomMatches(a, c) == IF a.any THEN c # "\n" ELSE a.c = c

IsWordAt(s, i) == i >= 1 /\ i <= Len(s) /\ IsWordChar(s[i])

\* \b between positions i - 1 and i
WordBoundary(s, i) == IsWordAt(s, i - 1) # IsWordAt(s, i)

\* \b(atoms)\b matches s from position i on
MatchAt(atoms, s, i) ==
    /\ i >= 1
    /\ i + Len(atoms) - 1 <= Len(s)
    /\ \A j \in 1..Len(atoms) : AtomMatches(atoms[j], s[i + j - 1])
    /\ WordBoundary(s, i)
    /\ WordBoundary(s, i + Len(atoms))

\* regex.test(html) on a fresh regular expression
RegexTest(atoms, s) == \E i \in 1..(Len(s) + 1) : MatchAt(atoms, s, i)

\* The matches a global replace takes: left to right, a match that starts
\* inside a taken match is passed over
RECURSIVE Taken(_,_,_)
Taken(atoms, s, i) ==
    /\ MatchAt(atoms, s, i)
    /\ \A k \in (i - Len(atoms) + 1)..(i - 1) : ~Taken(atoms, s, k)

\* s with open and close put around the matches that start at the
\* positions of starts
Wrap(atoms, s, starts, open, close) ==
    LET n == Len(atoms)
        covered(i) == \E k \in starts : k <= i /\ i < k + n
    IN Concat([i \in 1..(Len(s) + 1) |->
           (IF i \in starts THEN open \o SubSeq(s, i, i + n - 1) \o close ELSE <<>>)
           \o (IF i <= Len(s) /\ ~covered(i) THEN <<s[i]>> ELSE <<>>)])

\* The variant that replaces the first match only (no g flag).
ReplaceFirst(atoms, s, open, close) ==
    LET all == {i \in 1..(Len(s) + 1) : MatchAt(atoms, s, i)}
    IN Wrap(atoms, s, IF all = {} THEN {} ELSE {Min(all)}, open, close)

\* html.replace(regex, open + "$1" + close) with the g flag. (No term, anchor
\* id or preview of this model holds a "$", which has a meaning of its own
\* in a replacement string.)
ReplaceAll(atoms, s, open, close) ==
    Wrap(atoms, s, {i \in 1..(Len(s) + 1) : Taken(atoms, s, i)}, open, close)

----------------------------------------------------------------------------
(* escapeHtml                                                              *)

\* div.textContent = text; div.innerHTML: the serialisation of a text node
SerializeChar(c) ==
    CASE c = "&" -> <<"&","a","m","p",";">>
      [] c = "<" -> <<"&","l","t",";">>
      [] c = ">" -> <<"&","g","t",";">>
      [] OTHER   -> <<c>>

SerializeText(text) == MapChars(text, SerializeChar)

ReplaceQuotes(s) ==
    MapChars(s, LAMBDA c : IF c = "\"" THEN <<"&","q","u","o","t",";">> ELSE <<c>>)

escapeHtml(text) == ReplaceQuotes(SerializeText(text))

----------------------------------------------------------------------------
(* DOM nodes                                                               *)

Elem(tag, attrs, kids) == [k |-> "e", tag |-> tag, attrs |-> attrs, kids |-> kids, s |-> <<>>]
Text(s) == [k |-> "t", tag |-> <<>>, attrs |-> <<>>, kids |-> <<>>, s |-> s]
Attr(n, v) == [n |-> n, v |-> v]

IsElem(n) == n.k = "e"
IsText(n) == n.k = "t"

HasAttr(n, name) == \E i \in DOMAIN n.attrs : n.attrs[i].n = name

\* Element.getAttribute; the empty string stands for a missing attribute,
\* which every reader in script.js treats alike (both are falsy)
GetAttr(n, name) ==
    IF HasAttr(n, name)
    THEN n.attrs[CHOOSE i \in DOMAIN n.attrs : n.attrs[i].n = name].v
    ELSE <<>>

\* classList.contains
HasClass(n, cls) ==
    LET v == GetAttr(n, <<"c","l","a","s","s">>) IN
    \E i \in 1..Len(v) :
        /\ StartsWithAt(v, i, cls)
        /\ (i = 1 \/ IsSpace(v[i - 1]))
        /\ (i + Len(cls) > Len(v) \/ IsSpace(v[i + Len(cls)]))

\* Node.textContent
RECURSIVE TextContent(_)
TextContent(n) ==
    IF IsText(n) THEN n.s ELSE Concat([i \in DOMAIN n.kids |-> TextContent(n.kids[i])])

\* The node at a path: a path is the sequence of child indexes from the body
RECURSIVE NodeAt(_,_)
NodeAt(n, path) == IF path = <<>> THEN n ELSE NodeAt(n.kids[Head(path)], Tail(path))

\* parentNode.replaceChild(new, old) for the node at a path
RECURSIVE ReplaceAt(_,_,_)
ReplaceAt(n, path, new) ==
    IF path = <<>> THEN new
    ELSE [n EXCEPT !.kids[Head(path)] = ReplaceAt(@, Tail(path), new)]

\* Every path of the tree, in document order
RECURSIVE PathsFrom(_,_)
PathsFrom(n, path) ==
    <<path>> \o Concat([i \in DOMAIN n.kids |-> PathsFrom(n.kids[i], Append(path, i))])

AllPaths(d) == PathsFrom(d, <<>>)

IsPrefix(p, q) == Len(p) <= Len(q) /\ SubSeq(q, 1, Len(p)) = p

\* The paths of a node and of its ancestors: what closest() visits
SelfAndAncestors(path) == {SubSeq(path, 1, i) : i \in 0..Len(path)}

\* Element.closest for a selector given as a predicate on nodes
Closest(d, path, Sel(_)) == \E q \in SelfAndAncestors(path) : Sel(NodeAt(d, q))

----------------------------------------------------------------------------
(* The HTML parse of an innerHTML assignment (HTML fragment parsing in a   *)
(* span): tokenizer states and tree construction of the HTML standard, for *)
(* the markup that the strings of this model can hold: text, start and end *)
(* tags with attributes, and the character references amp, lt, gt, quot.   *)
(* Comments, void elements and other references occur in no string here.   *)

CharToken(c) == [t |-> "char", name |-> <<>>, attrs |-> <<>>, c |-> c]
NewTag(end) == [end |-> end, name |-> <<>>, attrs |-> <<>>, an |-> <<>>, av |-> <<>>, open |-> FALSE]

\* Leave the attribute being read; a second attribute of a name is dropped
FinishAttr(cur) ==
    IF ~cur.open THEN cur
    ELSE IF \E i \in DOMAIN cur.attrs : cur.attrs[i].n = cur.an
         THEN [cur EXCEPT !.open = FALSE]
    ELSE [cur EXCEPT !.open = FALSE, !.attrs = Append(@, Attr(cur.an, cur.av))]

StartAttr(cur, first) ==
    [FinishAttr(cur) EXCEPT !.open = TRUE, !.an = first, !.av = <<>>]

TagToken(cur) ==
    [t |-> IF cur.end THEN "end" ELSE "start", name |-> cur.name,
     attrs |-> FinishAttr(cur).attrs, c |-> ""]

RefNames == << <<"q","u","o","t">>, <<"a","m","p">>, <<"l","t">>, <<"g","t">> >>
RefChar(name) ==
    CASE name = <<"q","u","o","t">> -> "\""
      [] name = <<"a","m","p">> -> "&"
      [] name = <<"l","t">> -> "<"
      [] name = <<"g","t">> -> ">"

\* The character reference that starts at s[i] = "&": the decoded text and
\* the number of characters consumed
CharRef(s, i, inAttr) ==
    LET withSemi == {j \in DOMAIN RefNames : StartsWithAt(s, i + 1, Append(RefNames[j], ";"))}
        bare == {j \in DOMAIN RefNames : StartsWithAt(s, i + 1, RefNames[j])}
    IN  IF withSemi # {}
        THEN LET j == CHOOSE x \in withSemi : TRUE
             IN [text |-> <<RefChar(RefNames[j])>>, n |-> Len(RefNames[j]) + 2]
        ELSE IF bare # {}
        THEN LET j == CHOOSE x \in bare : TRUE
                 after == i + 1 + Len(RefNames[j])
             IN  IF inAttr /\ after <= Len(s) /\ (s[after] = "=" \/ (IsWordChar(s[after]) /\ s[after] # "_"))
                 THEN [text |-> <<"&">>, n |-> 1]
                 ELSE [text |-> <<RefChar(RefNames[j])>>, n |-> Len(RefNames[j]) + 1]
        ELSE [text |-> <<"&">>, n |-> 1]

CharTokens(text) == [j \in DOMAIN text |-> CharToken(text[j])]

\* One step of the tokenizer on the string s: x holds the position, the
\* tokenizer state, the tag being read and the tokens emitted so far
TokenizeStep(s, x) ==
    LET i == x.i
        st == x.st
        cur == x.cur
        out == x.out
    IN
    IF i > Len(s)
    THEN [x EXCEPT !.st = "End",
                   !.out = CASE st = "TagOpen" -> Append(out, CharToken("<"))
                             [] st = "EndTagOpen" -> out \o <<CharToken("<"), CharToken("/")>>
                             [] OTHER -> out]
    ELSE
    LET c == s[i] IN
    CASE st = "Data" ->
            IF c = "&"
            THEN LET r == CharRef(s, i, FALSE)
                 IN [i |-> i + r.n, st |-> "Data", cur |-> cur, out |-> out \o CharTokens(r.text)]
            ELSE IF c = "<" THEN [i |-> i + 1, st |-> "TagOpen", cur |-> cur, out |-> out]
            ELSE [i |-> i + 1, st |-> "Data", cur |-> cur, out |-> Append(out, CharToken(c))]
      [] st = "TagOpen" ->
            IF c = "/" THEN [i |-> i + 1, st |-> "EndTagOpen", cur |-> cur, out |-> out]
            ELSE IF IsAlpha(c) THEN [i |-> i, st |-> "TagName", cur |-> NewTag(FALSE), out |-> out]
            ELSE [i |-> i, st |-> "Data", cur |-> cur, out |-> Append(out, CharToken("<"))]
      [] st = "EndTagOpen" ->
            IF IsAlpha(c) THEN [i |-> i, st |-> "TagName", cur |-> NewTag(TRUE), out |-> out]
            ELSE IF c = ">" THEN [i |-> i + 1, st |-> "Data", cur |-> cur, out |-> out]
            ELSE [i |-> i + 1, st |-> "BogusComment", cur |-> cur, out |-> out]
      [] st = "BogusComment" ->
            [i |-> i + 1, st |-> IF c = ">" THEN "Data" ELSE "BogusComment", cur |-> cur, out |-> out]
      [] st = "TagName" ->
            IF IsSpace(c) THEN [i |-> i + 1, st |-> "BeforeAttrName", cur |-> cur, out |-> out]
            ELSE IF c = "/" THEN [i |-> i + 1, st |-> "SelfClosing", cur |-> cur, out |-> out]
            ELSE IF c = ">" THEN [i |-> i + 1, st |-> "Data", cur |-> cur, out |-> Append(out, TagToken(cur))]
            ELSE [i |-> i + 1, st |-> "TagName", cur |-> [cur EXCEPT !.name = Append(@, LowerChar(c))], out |-> out]
      [] st = "BeforeAttrName" ->
            IF IsSpace(c) THEN [i |-> i + 1, st |-> "BeforeAttrName", cur |-> cur, out |-> out]
            ELSE IF c \in {"/", ">"} THEN [i |-> i, st |-> "AfterAttrName", cur |-> cur, out |-> out]
            ELSE IF c = "=" THEN [i |-> i + 1, st |-> "AttrName", cur |-> StartAttr(cur, <<"=">>), out |-> out]
            ELSE [i |-> i, st |-> "AttrName", cur |-> StartAttr(cur, <<>>), out |-> out]
      [] st = "AttrName" ->
            IF IsSpace(c) \/ c \in {"/", ">"} THEN [i |-> i, st |-> "AfterAttrName", cur |-> cur, out |-> out]
            ELSE IF c = "=" THEN [i |-> i + 1, st |-> "BeforeAttrValue", cur |-> cur, out |-> out]
            ELSE [i |-> i + 1, st |-> "AttrName", cur |-> [cur EXCEPT !.an = Append(@, LowerChar(c))], out |-> out]
      [] st = "AfterAttrName" ->
            IF IsSpace(c) THEN [i |-> i + 1, st |-> "AfterAttrName", cur |-> cur, out |-> out]
            ELSE IF c = "/" THEN [i |-> i + 1, st |-> "SelfClosing", cur |-> cur, out |-> out]
            ELSE IF c = "=" THEN [i |-> i + 1, st |-> "BeforeAttrValue", cur |-> cur, out |-> out]
            ELSE IF c = ">" THEN [i |-> i + 1, st |-> "Data", cur |-> cur, out |-> Append(out, TagToken(cur))]
            ELSE [i |-> i, st |-> "AttrName", cur |-> StartAttr(cur, <<>>), out |-> out]
      [] st = "BeforeAttrValue" ->
            IF IsSpace(c) THEN [i |-> i + 1, st |-> "BeforeAttrValue", cur |-> cur, out |-> out]
            ELSE IF c = "\"" THEN [i |-> i + 1, st |-> "AttrValueDQ", cur |-> cur, out |-> out]
            ELSE IF c = "'" THEN [i |-> i + 1, st |-> "AttrValueSQ", cur |-> cur, out |-> out]
            ELSE IF c = ">" THEN [i |-> i + 1, st |-> "Data", cur |-> cur, out |-> Append(out, TagToken(cur))]
            ELSE [i |-> i, st |-> "AttrValueUnq", cur |-> cur, out |-> out]
      [] st \in {"AttrValueDQ", "AttrValueSQ"} ->
            IF c = (IF st = "AttrValueDQ" THEN "\"" ELSE "'")
            THEN [i |-> i + 1, st |-> "AfterAttrValueQ", cur |-> cur, out |-> out]
            ELSE IF c = "&"
            THEN LET r == CharRef(s, i, TRUE)
                 IN [i |-> i + r.n, st |-> st, cur |-> [cur EXCEPT !.av = @ \o r.text], out |-> out]
            ELSE [i |-> i + 1, st |-> st, cur |-> [cur EXCEPT !.av = Append(@, c)], out |-> out]
      [] st = "AttrValueUnq" ->
            IF IsSpace(c) THEN [i |-> i + 1, st |-> "BeforeAttrName", cur |-> cur, out |-> out]
            ELSE IF c = "&"
            THEN LET r == CharRef(s, i, TRUE)
                 IN [i |-> i + r.n, st |-> st, cur |-> [cur EXCEPT !.av = @ \o r.text], out |-> out]
            ELSE IF c = ">" THEN [i |-> i + 1, st |-> "Data", cur |-> cur, out |-> Append(out, TagToken(cur))]
            ELSE [i |-> i + 1, st |-> st, cur |-> [cur EXCEPT !.av = Append(@, c)], out |-> out]
      [] st = "AfterAttrValueQ" ->
            IF IsSpace(c) THEN [i |-> i + 1, st |-> "BeforeAttrName", cur |-> cur, out |-> out]
            ELSE IF c = "/" THEN [i |-> i + 1, st |-> "SelfClosing", cur |-> cur, out |-> out]
            ELSE IF c = ">" THEN [i |-> i + 1, st |-> "Data", cur |-> cur, out |-> Append(out, TagToken(cur))]
            ELSE [i |-> i, st |-> "BeforeAttrName", cur |-> cur, out |-> out]
      [] st = "SelfClosing" ->
            IF c = ">" THEN [i |-> i + 1, st |-> "Data", cur |-> cur, out |-> Append(out, TagToken(cur))]
            ELSE [i |-> i, st |-> "BeforeAttrName", cur |-> cur, out |-> out]

\* n steps of the tokenizer
RECURSIVE TokenizeSteps(_,_,_)
TokenizeSteps(s, x, n) ==
    IF n = 0 \/ x.st = "End" THEN x
    ELSE IF n = 1 THEN TokenizeStep(s, x)
    ELSE TokenizeSteps(s, TokenizeSteps(s, x, n \div 2), n - (n \div 2))

\* The tokens of s: a character is reconsumed at most twice before a
\* step consumes it, so 3 * Len(s) + 1 steps reach the end
Tokenize(s) ==
    TokenizeSteps(s, [i |-> 1, st |-> "Data", cur |-> NewTag(FALSE), out |-> <<>>],
                  3 * Len(s) + 1).out

\* Tree construction: the stack of open elements, the context element first
Frame(tag, attrs) == [tag |-> tag, attrs |-> attrs, kids |-> <<>>]

RECURSIVE PopTo(_,_)
PopTo(stack, depth) ==
    IF Len(stack) <= depth THEN stack
    ELSE LET top == stack[Len(stack)]
             parent == stack[Len(stack) - 1]
         IN PopTo(Append(SubSeq(stack, 1, Len(stack) - 2),
                         [parent EXCEPT !.kids = Append(@, Elem(top.tag, top.attrs, top.kids))]),
                  depth)

AddChar(stack, c) ==
    LET top == stack[Len(stack)]
        n == Len(top.kids)
    IN  IF n > 0 /\ IsText(top.kids[n])
        THEN [stack EXCEPT ![Len(stack)].kids[n].s = Append(@, c)]
        ELSE [stack EXCEPT ![Len(stack)].kids = Append(@, Text(<<c>>))]

OpenIndexes(stack, name) == {j \in 2..Len(stack) : stack[j].tag = name}

\* The stack of open elements after one token
BuildStep(stack, tok) ==
    CASE tok.t = "char" -> AddChar(stack, tok.c)
      [] tok.t = "start" ->
            LET open == IF tok.name = <<"a">> THEN OpenIndexes(stack, tok.name) ELSE {}
                base == IF open = {} THEN stack ELSE PopTo(stack, Max(open) - 1)
            IN Append(base, Frame(tok.name, tok.attrs))
      [] tok.t = "end" ->
            LET open == OpenIndexes(stack, tok.name)
            IN IF open = {} THEN stack ELSE PopTo(stack, Max(open) - 1)

\* The stack after the tokens lo..hi (the stack is never empty: the context
\* element stays on it)
RECURSIVE BuildRange(_,_,_,_)
BuildRange(tokens, stack, lo, hi) ==
    IF stack = <<>> \/ lo > hi THEN stack
    ELSE IF lo = hi THEN BuildStep(stack, tokens[lo])
    ELSE LET mid == (lo + hi) \div 2
         IN BuildRange(tokens, BuildRange(tokens, stack, lo, mid), mid + 1, hi)

\* The children an element gets from element.innerHTML = html
ParseFragment(html) ==
    LET tokens == Tokenize(html)
    IN PopTo(BuildRange(tokens, <<Frame(<<"s","p","a","n">>, <<>>)>>, 1, Len(tokens)), 1)[1].kids

----------------------------------------------------------------------------
(* Tag, attribute and class names                                          *)

tA == <<"a">>
tP == <<"p">>
tLi == <<"l","i">>
tSpan == <<"s","p","a","n">>
tArticle == <<"a","r","t","i","c","l","e">>
tBlockquote == <<"b","l","o","c","k","q","u","o","t","e">>
tDiv == <<"d","i","v">>
tCode == <<"c","o","d","e">>
tH1 == <<"h","1">>
tH2 == <<"h","2">>
tH3 == <<"h","3">>
tH4 == <<"h","4">>
tEm == <<"e","m">>
tPre == <<"p","r","e">>
tScript == <<"s","c","r","i","p","t">>
aClass == <<"c","l","a","s","s">>
aHref == <<"h","r","e","f">>
aDataTerm == <<"d","a","t","a","-","t","e","r","m">>
aDataDefinition == <<"d","a","t","a","-","d","e","f","i","n","i","t","i","o","n">>
cDefinitionLink == <<"d","e","f","i","n","i","t","i","o","n","-","l","i","n","k">>
cWritingContent == <<"w","r","i","t","i","n","g","-","c","o","n","t","e","n","t">>
cAbstract == <<"a","b","s","t","r","a","c","t">>
cDropcap == <<"d","r","o","p","c","a","p">>
cVerse == <<"v","e","r","s","e">>

----------------------------------------------------------------------------
(* AutoEnhance: the registry                                               *)

PreviewMax == 150
PreviewCut == 147

\* The variant that cuts at the limit itself and then appends the dots
PreviewCutAtMax(body) ==
    LET preview == trim(body) IN
    IF Len(preview) > PreviewMax THEN SubSeq(preview, 1, PreviewMax) \o <<".",".",".">>
    ELSE preview

\* preview = contentEl.textContent.trim(), cut to 147 characters and "..."
Preview(body) ==
    LET preview == trim(body) IN
    IF Len(preview) > PreviewMax THEN SubSeq(preview, 1, PreviewCut) \o <<".",".",".">>
    ELSE preview

KeyIndex(defs, key) == {i \in DOMAIN defs : defs[i].key = key}

\* this.definitions[key] = value (no key of this model is an integer index,
\* which Object.entries would list first): a new key goes last in Object.entries
\* order, an existing key keeps its place and gets the new value
PutDefinition(defs, def) ==
    IF KeyIndex(defs, def.key) = {} THEN Append(defs, def)
    ELSE [defs EXCEPT ![CHOOSE i \in KeyIndex(defs, def.key) : TRUE] = def]

\* The body of the forEach over the .definition-entry elements
StoreEntry(defs, entry) ==
    IF entry.hasTerm /\ entry.hasContent /\ entry.id # <<>>
    THEN PutDefinition(defs, [key |-> toLowerCase(trim(entry.term)), term |-> trim(entry.term),
                              slug |-> entry.id, preview |-> Preview(entry.body)])
    ELSE defs

RECURSIVE StoreEntries(_,_)
StoreEntries(defs, entries) ==
    IF entries = <<>> THEN defs
    ELSE StoreEntries(StoreEntry(defs, Head(entries)), Tail(entries))

\* definitionsPath in loadDefinitions: the glossary location for a page path
DefinitionsPath(path) ==
    IF includes(path, <<"/","p","a","g","e","s","/","w","r","i","t","i","n","g","/">>)
    THEN <<".",".","/","d","e","f","i","n","i","t","i","o","n","s",".","h","t","m","l">>
    ELSE IF includes(path, <<"/","p","a","g","e","s","/">>)
    THEN <<"d","e","f","i","n","i","t","i","o","n","s",".","h","t","m","l">>
    ELSE <<"p","a","g","e","s","/","d","e","f","i","n","i","t","i","o","n","s",".","h","t","m","l">>

----------------------------------------------------------------------------
(* AutoEnhance: the annotation pass                                        *)

\* The replacement string up to "$1", and after it
LinkOpen(linkPrefix, def) ==
    <<"<","a"," ","h","r","e","f","=","\"">> \o linkPrefix \o <<"#">> \o def.slug
    \o <<"\""," ","c","l","a","s","s","=","\"","d","e","f","i","n","i","t","i","o","n","-","l","i","n","k","\""," ","d","a","t","a","-","t","e","r","m","=","\"">>
    \o def.term
    \o <<"\""," ","d","a","t","a","-","d","e","f","i","n","i","t","i","o","n","=","\"">>
    \o escapeHtml(def.preview) \o <<"\"",">">>

LinkClose == <<"<","/","a",">">>

TermRegex(def) == Atoms(escapeRegex(def.term))

\* The loop over Object.entries(this.definitions) for one text node, from
\* entry i on: the html string and the modified flag
RECURSIVE ApplyTerms(_,_,_,_,_)
ApplyTerms(defs, i, linkPrefix, html, modified) ==
    IF i > Len(defs) THEN [html |-> html, modified |-> modified]
    ELSE IF RegexTest(TermRegex(defs[i]), html)
         THEN ApplyTerms(defs, i + 1, linkPrefix,
                         ReplaceAll(TermRegex(defs[i]), html, LinkOpen(linkPrefix, defs[i]), LinkClose),
                         TRUE)
    ELSE ApplyTerms(defs, i + 1, linkPrefix, html, modified)

\* The body of textNodes.forEach: the node that stands at the text node's
\* place afterwards
RewriteTextNode(defs, linkPrefix, textNode) ==
    LET r == ApplyTerms(defs, 1, linkPrefix, textNode.s, FALSE) IN
    IF r.modified THEN Elem(tSpan, <<>>, ParseFragment(r.html)) ELSE textNode

IsAnchor(n) == IsElem(n) /\ n.tag = tA
IsAnchorOrDefinitionLink(n) == IsElem(n) /\ (n.tag = tA \/ HasClass(n, cDefinitionLink))
IsHeading(n) == IsElem(n) /\ n.tag \in {tH1, tH2, tH3, tH4}

Parent(path) == SubSeq(path, 1, Len(path) - 1)

\* The text nodes the tree walker collects below an element, without those
\* whose parent element is in an anchor or a definition link
CollectTextNodes(d, root) ==
    FilterSeq(AllPaths(d),
              LAMBDA p : /\ IsPrefix(root, p)
                         /\ IsText(NodeAt(d, p))
                         /\ ~Closest(d, Parent(p), IsAnchorOrDefinitionLink))

RECURSIVE RewriteAll(_,_,_,_)
RewriteAll(d, defs, linkPrefix, textNodes) ==
    IF textNodes = <<>> THEN d
    ELSE RewriteAll(ReplaceAt(d, Head(textNodes),
                              RewriteTextNode(defs, linkPrefix, NodeAt(d, Head(textNodes)))),
                    defs, linkPrefix, Tail(textNodes))

processTextNode(d, defs, linkPrefix, element) ==
    RewriteAll(d, defs, linkPrefix, CollectTextNodes(d, element))

HasAncestor(d, path, Sel(_)) == \E q \in SelfAndAncestors(path) : q # path /\ Sel(NodeAt(d, q))

\* The variant without the ancestor parts of the selectors.
MatchesLoose(d, path) ==
    LET n == NodeAt(d, path) IN
    IsElem(n) /\ (n.tag \in {tP, tLi, tBlockquote} \/ HasClass(n, cWritingContent))

\* 'article p, article li, .writing-content, .abstract p, blockquote'
MatchesContentSelector(d, path) ==
    LET n == NodeAt(d, path) IN
    /\ IsElem(n)
    /\ \/ n.tag \in {tP, tLi} /\ HasAncestor(d, path, LAMBDA m : IsElem(m) /\ m.tag = tArticle)
       \/ HasClass(n, cWritingContent)
       \/ n.tag = tP /\ HasAncestor(d, path, LAMBDA m : IsElem(m) /\ HasClass(m, cAbstract))
       \/ n.tag = tBlockquote

\* The variant that selects with the loose selector.
ContentAreasLoose(d) == FilterSeq(AllPaths(d), LAMBDA p : MatchesLoose(d, p))

\* document.querySelectorAll of the content selector, in document order
ContentAreas(d) == FilterSeq(AllPaths(d), LAMBDA p : MatchesContentSelector(d, p))

RECURSIVE ProcessAreas(_,_,_,_)
ProcessAreas(d, defs, linkPrefix, areas) ==
    IF areas = <<>> THEN d
    ELSE LET el == Head(areas) IN
         ProcessAreas(IF Closest(d, el, IsAnchor) \/ Closest(d, el, IsHeading)
                      THEN d
                      ELSE processTextNode(d, defs, linkPrefix, el),
                      defs, linkPrefix, Tail(areas))

\* The variant of linkPrefix that tests for '/pages/' first
LinkPrefixPagesFirst(path) ==
    IF includes(path, <<"/","p","a","g","e","s","/">>)
    THEN <<"d","e","f","i","n","i","t","i","o","n","s",".","h","t","m","l">>
    ELSE IF includes(path, <<"/","p","a","g","e","s","/","w","r","i","t","i","n","g","/">>)
    THEN <<".",".","/","d","e","f","i","n","i","t","i","o","n","s",".","h","t","m","l">>
    ELSE <<"p","a","g","e","s","/","d","e","f","i","n","i","t","i","o","n","s",".","h","t","m","l">>

\* linkPrefix in linkDefinitions, for the page path
LinkPrefix(path) ==
    IF includes(path, <<"/","p","a","g","e","s","/","w","r","i","t","i","n","g","/">>)
    THEN <<".",".","/","d","e","f","i","n","i","t","i","o","n","s",".","h","t","m","l">>
    ELSE IF includes(path, <<"/","p","a","g","e","s","/">>)
    THEN <<"d","e","f","i","n","i","t","i","o","n","s",".","h","t","m","l">>
    ELSE <<"p","a","g","e","s","/","d","e","f","i","n","i","t","i","o","n","s",".","h","t","m","l">>

\* linkDefinitions: the document after the pass
linkDefinitions(d, defs, path) ==
    IF Len(defs) = 0 THEN d
    ELSE IF includes(path, <<"d","e","f","i","n","i","t","i","o","n","s",".","h","t","m","l">>) THEN d
    ELSE ProcessAreas(d, defs, LinkPrefix(path), ContentAreas(d))

----------------------------------------------------------------------------
(* AutoEnhance: dropcaps                                                   *)

tSection == <<"s","e","c","t","i","o","n">>
aId == <<"i","d">>

\* One attribute in the serialisation of a start tag: ampersands and double
\* quotes of the value are escaped
SerializeAttr(a) ==
    <<" ">> \o a.n \o <<"=","\"">>
    \o MapChars(a.v, LAMBDA c : CASE c = "&"  -> <<"&","a","m","p",";">>
                                  [] c = "\"" -> <<"&","q","u","o","t",";">>
                                  [] OTHER    -> <<c>>)
    \o <<"\"">>

RECURSIVE SerializeNode(_)
SerializeNode(n) ==
    IF IsText(n) THEN SerializeText(n.s)
    ELSE <<"<">> \o n.tag \o Concat([i \in DOMAIN n.attrs |-> SerializeAttr(n.attrs[i])]) \o <<">">>
         \o Concat([i \in DOMAIN n.kids |-> SerializeNode(n.kids[i])])
         \o <<"<","/">> \o n.tag \o <<">">>

\* Element.innerHTML, read
innerHTML(n) == Concat([i \in DOMAIN n.kids |-> SerializeNode(n.kids[i])])

DropcapMinLength == 50

\* The position after the leading \s*
SkipSpaces(text) ==
    Min({i \in 1..(Len(text) + 1) : i > Len(text) \/ ~IsSpace(text[i])})

\* The position after the (?:<[^>]+>)* that starts at position i
RECURSIVE SkipTags(_,_)
SkipTags(text, i) ==
    IF i <= Len(text) /\ text[i] = "<"
    THEN LET ends == {j \in (i + 2)..Len(text) :
                         text[j] = ">" /\ \A k \in (i + 1)..(j - 1) : text[k] # ">"}
         IN IF ends = {} THEN i ELSE SkipTags(text, Min(ends) + 1)
    ELSE i

\* text.match(/^(\s*(?:<[^>]+>)*)([A-Za-z])/): the position of the letter,
\* or 0 when there is no match
DropcapMatch(text) ==
    LET i == SkipTags(text, SkipSpaces(text))
    IN IF i <= Len(text) /\ IsAlpha(text[i]) THEN i ELSE 0

\* The body of the inner forEach without its first check
DropcapParagraphUnchecked(p) ==
    IF Len(trim(TextContent(p))) < DropcapMinLength THEN p
    ELSE LET text == innerHTML(p)
             m == DropcapMatch(text)
         IN IF m = 0 THEN p
            ELSE [p EXCEPT !.kids = ParseFragment(
                     SubSeq(text, 1, m - 1)
                     \o <<"<","s","p","a","n"," ","c","l","a","s","s","=","\"","d","r","o","p","c","a","p","\"",">">>
                     \o <<text[m]>> \o <<"<","/","s","p","a","n",">">>
                     \o SubSeq(text, m + 1, Len(text)))]

\* The body of the inner forEach: the paragraph afterwards
DropcapParagraph(p) ==
    IF \E q \in Range(AllPaths(p)) : q # <<>> /\ HasClass(NodeAt(p, q), cDropcap) THEN p
    ELSE IF Len(trim(TextContent(p))) < DropcapMinLength THEN p
    ELSE LET text == innerHTML(p)
             m == DropcapMatch(text)
         IN IF m = 0 THEN p
            ELSE [p EXCEPT !.kids = ParseFragment(
                     SubSeq(text, 1, m - 1)
                     \o <<"<","s","p","a","n"," ","c","l","a","s","s","=","\"","d","r","o","p","c","a","p","\"",">">>
                     \o <<text[m]>> \o <<"<","/","s","p","a","n",">">>
                     \o SubSeq(text, m + 1, Len(text)))]

\* :first-of-type
FirstOfType(d, path) ==
    /\ path # <<>>
    /\ LET par == NodeAt(d, Parent(path)) IN
       \A j \in 1..(path[Len(path)] - 1) :
           ~(IsElem(par.kids[j]) /\ par.kids[j].tag = NodeAt(d, path).tag)

\* The four selectors of applyDropcaps, in the order of the array
MatchesDropcapSelector(d, path, sel) ==
    /\ path # <<>>
    /\ IsElem(NodeAt(d, path))
    /\ NodeAt(d, path).tag = tP
    /\ FirstOfType(d, path)
    /\ LET par == NodeAt(d, Parent(path)) IN
       CASE sel = 1 -> par.tag = tSection /\ GetAttr(par, aId) = <<"i","n","t","r","o","d","u","c","t","i","o","n">>
         [] sel = 2 -> par.tag = tSection /\ GetAttr(par, aId) = <<"i","n","t","r","o">>
         [] sel = 3 -> HasClass(par, cWritingContent)
         [] OTHER   -> /\ par.tag = tSection
                       /\ FirstOfType(d, Parent(path))
                       /\ NodeAt(d, Parent(Parent(path))).tag = tArticle

RECURSIVE DropcapAll(_,_)
DropcapAll(d, paths) ==
    IF paths = <<>> THEN d
    ELSE DropcapAll(ReplaceAt(d, Head(paths), DropcapParagraph(NodeAt(d, Head(paths)))),
                    Tail(paths))

RECURSIVE DropcapSelectorsFrom(_,_)
DropcapSelectorsFrom(d, sel) ==
    IF sel > 4 THEN d
    ELSE DropcapSelectorsFrom(
             DropcapAll(d, FilterSeq(AllPaths(d), LAMBDA p : MatchesDropcapSelector(d, p, sel))),
             sel + 1)

\* applyDropcaps: the document afterwards
applyDropcaps(d) == DropcapSelectorsFrom(d, 1)

----------------------------------------------------------------------------
(* AutoEnhance: verse detection                                            *)

ShortLineLength == 60

\* text.split('\n'): a line is named by the position it starts at
LineStarts(text) == {1} \cup {i + 1 : i \in {j \in DOMAIN text : text[j] = "\n"}}

LineAt(text, st) ==
    SubSeq(text, st,
           Min({j \in DOMAIN text : j >= st /\ text[j] = "\n"} \cup {Len(text) + 1}) - 1)

\* shortLines.length > lines.length * 0.5
IsVerse(text) ==
    LET lines == {st \in LineStarts(text) : trim(LineAt(text, st)) # <<>>}
        shortLines == {st \in lines :
                          LET l == trim(LineAt(text, st))
                          IN Len(l) < ShortLineLength /\ l[Len(l)] # "."}
    IN 2 * Cardinality(shortLines) > Cardinality(lines)

\* classList.add
AddClass(n, cls) ==
    IF HasClass(n, cls) THEN n
    ELSE IF HasAttr(n, aClass)
         THEN [n EXCEPT !.attrs = [i \in DOMAIN n.attrs |->
                  IF n.attrs[i].n = aClass
                  THEN Attr(aClass, n.attrs[i].v \o <<" ">> \o cls)
                  ELSE n.attrs[i]]]
    ELSE [n EXCEPT !.attrs = Append(n.attrs, Attr(aClass, cls))]

RECURSIVE EnhanceAll(_,_)
EnhanceAll(d, paths) ==
    IF paths = <<>> THEN d
    ELSE LET content == NodeAt(d, Head(paths)) IN
         EnhanceAll(IF IsVerse(TextContent(content))
                    THEN ReplaceAt(d, Head(paths), AddClass(content, cVerse))
                    ELSE d,
                    Tail(paths))

\* enhanceWritingContent: the document afterwards
enhanceWritingContent(d) ==
    EnhanceAll(d, FilterSeq(AllPaths(d), LAMBDA p : HasClass(NodeAt(d, p), cWritingContent)))

----------------------------------------------------------------------------
(* LinkPopup                                                               *)

\* The links that querySelectorAll('a.definition-link') finds
IsDefinitionLink(n) == IsElem(n) /\ n.tag = tA /\ HasClass(n, cDefinitionLink)

DefinitionLinks(d) == {p \in Range(AllPaths(d)) : IsDefinitionLink(NodeAt(d, p))}

NoListeners == [p \in {} |-> 0]

\* The variant that attaches nothing
attachNoListeners(ls, d) == ls

\* attachDefinitionListeners: every link found gets one more set of handlers
attachDefinitionListeners(ls, d) ==
    [p \in DOMAIN ls \cup DefinitionLinks(d) |->
        (IF p \in DOMAIN ls THEN ls[p] ELSE 0) + (IF p \in DefinitionLinks(d) THEN 1 ELSE 0)]

\* The handlers that are left after applyDropcaps: a paragraph whose
\* innerHTML was assigned holds new nodes, which have no handlers
AfterDropcaps(ls, d, d2) ==
    LET rebuilt == {q \in Range(AllPaths(d)) :
                       /\ \E sel \in 1..4 : MatchesDropcapSelector(d, q, sel)
                       /\ NodeAt(d2, q) # NodeAt(d, q)}
        kept == {p \in DOMAIN ls : ~\E q \in rebuilt : q # p /\ IsPrefix(q, p)}
    IN [p \in kept |-> ls[p]]

NoContent == [title |-> <<>>, excerpt |-> <<>>, href |-> <<>>]

\* this.activeLink: the link's place in the tree and its href; null is NoLink.
\* A link that applyDropcaps has taken out of the tree keeps its href and has
\* no place (no path begins with 0).
NoPath == <<0>>
NoLink == [path |-> NoPath, href |-> <<>>]

\* The numbers of show(e)
PopupHeightTouch == 160
PopupHeightHover == 120
PopupGap == 8
PopupMargin == 16
PopupInset == 32
PopupMaxWidth == 400
PopupRoom == 420

\* const popupHeight = this.isTouchDevice ? 160 : 120
popupHeight(touch) == IF touch THEN PopupHeightTouch ELSE PopupHeightHover

\* The choice between the two placements. The variant that looks at the
\* popup's height alone:
PlaceBelowByHeight(spaceBelow, spaceAbove, height) == spaceBelow >= height

\* if (spaceBelow >= popupHeight || spaceBelow >= spaceAbove)
PlaceBelow(spaceBelow, spaceAbove, height) ==
    spaceBelow >= height \/ spaceBelow >= spaceAbove

\* top, from rect = link.getBoundingClientRect() and the window: v holds
\* rect.top, rect.bottom, rect.left, window.innerHeight, window.innerWidth,
\* window.scrollX and window.scrollY, in whole pixels
PopupTop(touch, v) ==
    LET spaceAbove == v.top
        spaceBelow == v.innerHeight - v.bottom
    IN IF PlaceBelow(spaceBelow, spaceAbove, popupHeight(touch))
       THEN v.bottom + v.scrollY + PopupGap
       ELSE v.top + v.scrollY - popupHeight(touch) - PopupGap

\* const popupWidth = Math.min(window.innerWidth - 32, 400)
TouchPopupWidth(v) == Min({v.innerWidth - PopupInset, PopupMaxWidth})

\* left. (The windows of this model have an even innerWidth, so that the
\* half is a whole number of pixels.)
PopupLeft(touch, v) ==
    IF touch
    THEN Max({PopupMargin, (v.innerWidth - TouchPopupWidth(v)) \div 2})
    ELSE Max({PopupMargin, Min({v.left + v.scrollX, v.innerWidth - PopupRoom})})

\* The popup's width: with touch the popupWidth of show; without touch show
\* computes none, and the popup has the 400 pixels that popupWidth is capped
\* at and for which the clamp of left keeps 420 pixels free
PopupWidth(touch, v) == IF touch THEN TouchPopupWidth(v) ELSE PopupMaxWidth

NoStyle == <<>>

\* clearTimeout(id): the timer with this id is no longer pending. The
\* variant that cancels nothing:
clearTimeoutNot(timers, id) == timers

clearTimeout(timers, id) == timers \ {id}

\* The id setTimeout returns: one that no pending timer and no handle in use
\* has (a browser hands out increasing ids; only their being distinct counts)
NewTimer(timers, handle) ==
    CHOOSE t \in 1..(Cardinality(timers) + 2) :
        /\ t \notin timers \cup {handle}
        /\ \A u \in 1..(t - 1) : u \in timers \cup {handle}

\* The variant of show that leaves the popup's content as it is
showStale(ui, link, touch, v) ==
    LET timers == clearTimeout(ui.timer, ui.timeout)
        id == NewTimer(timers, ui.timeout)
    IN [ui EXCEPT !.timer = timers \cup {id}, !.timeout = id]

\* show(e) for an event on a link: what becomes of the popup
show(ui, link, touch, v) ==
    LET term == GetAttr(link, aDataTerm)
        definition == GetAttr(link, aDataDefinition)
        timers == clearTimeout(ui.timer, ui.timeout)
        id == NewTimer(timers, ui.timeout)
    IN IF term = <<>> \/ definition = <<>> THEN [ui EXCEPT !.timer = timers]
       ELSE [ui EXCEPT !.timer = timers \cup {id},
                       !.timeout = id,
                       !.content = [title |-> term, excerpt |-> definition,
                                    href |-> GetAttr(link, aHref)],
                       !.style = <<PopupTop(touch, v), PopupLeft(touch, v)>>]

\* The variant of hide that leaves the timer running
hideKeepsTimer(ui) == [ui EXCEPT !.shown = FALSE]

hide(ui) == [ui EXCEPT !.timer = clearTimeout(ui.timer, ui.timeout), !.shown = FALSE]

\* The variant of the click handler without the test for a second tap
clickEveryTapFirst(ui, p, link, touch, v) ==
    IF ~touch THEN ui
    ELSE show([ui EXCEPT !.prevented = TRUE,
                         !.activeLink = [path |-> p, href |-> GetAttr(link, aHref)]],
              link, touch, v)

\* The click handler of a link at path p
click(ui, p, link, touch, v) ==
    IF ~touch THEN ui
    ELSE IF ui.activeLink.path = p /\ ui.shown THEN ui
    ELSE show([ui EXCEPT !.prevented = TRUE,
                         !.activeLink = [path |-> p, href |-> GetAttr(link, aHref)]],
              link, touch, v)

\* The handler of the close button, and of a touch outside the popup and the
\* links: this.hide(); this.activeLink = null
dismiss(ui) == [hide(ui) EXCEPT !.activeLink = NoLink]

\* this.activeLink after applyDropcaps: a link in a rebuilt paragraph is out
\* of the tree
ActiveAfterDropcaps(active, ls, ls2) ==
    IF active.path \in DOMAIN ls /\ active.path \notin DOMAIN ls2
    THEN [active EXCEPT !.path = NoPath]
    ELSE active

\* Where a rejected await inside loadDefinitions leads. The variant without
\* the try/catch: the rejection leaves loadDefinitions.
loadDefinitionsEndsUncaught(outcome) ==
    IF outcome \in {"reject", "textfail"} THEN "throws" ELSE "returns"

\* With the try/catch around the whole body, loadDefinitions returns for
\* every outcome of the request
loadDefinitionsEnds(outcome) == "returns"

----------------------------------------------------------------------------
(* Sidenotes: the DOM operations DesktopSidenotes and MobileSidenotes use  *)

tButton == <<"b","u","t","t","o","n">>
aStyle == <<"s","t","y","l","e">>
aHidden == <<"h","i","d","d","e","n">>
aAriaExpanded == <<"a","r","i","a","-","e","x","p","a","n","d","e","d">>
aAriaLabel == <<"a","r","i","a","-","l","a","b","e","l">>
aTabindex == <<"t","a","b","i","n","d","e","x">>
cSidenote == <<"s","i","d","e","n","o","t","e">>
cSidenoteContent == <<"s","i","d","e","n","o","t","e","-","c","o","n","t","e","n","t">>
cSidenoteNumber == <<"s","i","d","e","n","o","t","e","-","n","u","m","b","e","r">>
cVisible == <<"v","i","s","i","b","l","e">>
cConverted == <<"s","i","d","e","n","o","t","e","-","m","o","b","i","l","e","-","c","o","n","v","e","r","t","e","d">>
cWrapper == <<"s","i","d","e","n","o","t","e","-","m","o","b","i","l","e","-","w","r","a","p","p","e","r">>
cToggle == <<"s","i","d","e","n","o","t","e","-","m","o","b","i","l","e","-","t","o","g","g","l","e">>
cInlineContent == <<"s","i","d","e","n","o","t","e","-","m","o","b","i","l","e","-","c","o","n","t","e","n","t">>
cActive == <<"a","c","t","i","v","e">>
pLeft == <<"l","e","f","t">>
pTop == <<"t","o","p">>
pDisplay == <<"d","i","s","p","l","a","y">>

\* The pieces of a string between the occurrences of a character
SplitAt(s, cuts) == [k \in 1..(Len(cuts) - 1) |-> SubSeq(s, cuts[k] + 1, cuts[k + 1] - 1)]

SplitOn(s, c) ==
    SplitAt(s, <<0>> \o FilterSeq([i \in 1..Len(s) |-> i], LAMBDA i : s[i] = c)
               \o <<Len(s) + 1>>)

\* Element.setAttribute
SetAttr(n, name, v) ==
    IF HasAttr(n, name)
    THEN [n EXCEPT !.attrs = [i \in DOMAIN n.attrs |->
             IF n.attrs[i].n = name THEN Attr(name, v) ELSE n.attrs[i]]]
    ELSE [n EXCEPT !.attrs = Append(n.attrs, Attr(name, v))]

\* Element.removeAttribute
RemoveAttr(n, name) ==
    [n EXCEPT !.attrs = FilterSeq(n.attrs, LAMBDA a : a.n # name)]

\* The tokens of a class attribute's value
ClassTokens(v) ==
    FilterSeq(SplitOn([i \in DOMAIN v |-> IF IsSpace(v[i]) THEN " " ELSE v[i]], " "),
              LAMBDA t : t # <<>>)

\* Strings joined with a separator
Join(ss, sep) ==
    Concat([i \in DOMAIN ss |-> IF i = 1 THEN ss[i] ELSE sep \o ss[i]])

\* classList.remove: the attribute is written back from the tokens left
RemoveClass(n, cls) ==
    IF ~HasClass(n, cls) THEN n
    ELSE SetAttr(n, aClass,
                 Join(FilterSeq(ClassTokens(GetAttr(n, aClass)), LAMBDA t : t # cls), <<" ">>))

\* classList.toggle(cls, force)
ToggleClass(n, cls, force) == IF force THEN AddClass(n, cls) ELSE RemoveClass(n, cls)

\* The declarations of a style attribute, as the CSSOM serialises them:
\* "left: 916px; top: 100px;"
Declaration(nv) == [p |-> trim(nv[1]), v |-> IF Len(nv) > 1 THEN trim(nv[2]) ELSE <<>>]

Declarations(parts) == [i \in DOMAIN parts |-> Declaration(SplitOn(parts[i], ":"))]

StyleDeclarations(n) ==
    Declarations(FilterSeq(SplitOn(GetAttr(n, aStyle), ";"), LAMBDA t : trim(t) # <<>>))

SerializeStyle(decls) ==
    Join([i \in DOMAIN decls |-> decls[i].p \o <<":"," ">> \o decls[i].v \o <<";">>], <<" ">>)

HasDeclaration(decls, prop) == \E i \in DOMAIN decls : decls[i].p = prop

\* The value a property has in a list of declarations: the empty string
\* when the property is not set
DeclarationValue(decls, prop) ==
    IF HasDeclaration(decls, prop)
    THEN decls[CHOOSE i \in DOMAIN decls : decls[i].p = prop].v
    ELSE <<>>

\* element.style[prop], read
StyleGet(n, prop) == DeclarationValue(StyleDeclarations(n), prop)

\* The declarations after an assignment: the empty string removes the
\* property
SetDeclaration(decls, prop, value) ==
    IF value = <<>> THEN FilterSeq(decls, LAMBDA d : d.p # prop)
    ELSE IF HasDeclaration(decls, prop)
    THEN [i \in DOMAIN decls |-> IF decls[i].p = prop THEN [p |-> prop, v |-> value]
                                 ELSE decls[i]]
    ELSE Append(decls, [p |-> prop, v |-> value])

\* element.style[prop] = value; removing a property that is not set leaves
\* the element without a style attribute if it had none
StyleSet(n, prop, value) ==
    IF value = <<>> /\ ~HasAttr(n, aStyle) THEN n
    ELSE SetAttr(n, aStyle, SerializeStyle(SetDeclaration(StyleDeclarations(n), prop, value)))

Digits == <<"0","1","2","3","4","5","6","7","8","9">>

\* A number in a template literal
RECURSIVE NumberToString(_)
NumberToString(n) ==
    IF n < 0 THEN <<"-">> \o NumberToString(0 - n)
    ELSE IF n < 10 THEN <<Digits[n + 1]>>
    ELSE NumberToString(n \div 10) \o <<Digits[(n % 10) + 1]>>

\* `${n}px`
Px(n) == NumberToString(n) \o <<"p","x">>

\* parentNode.appendChild(child) for the parent at a path
AppendChild(d, path, child) ==
    ReplaceAt(d, path, [NodeAt(d, path) EXCEPT !.kids = Append(@, child)])

\* node.remove() for the node at a path
WithoutKid(par, at) ==
    [par EXCEPT !.kids = SubSeq(@, 1, at - 1) \o SubSeq(@, at + 1, Len(@))]

RemoveNode(d, path) ==
    ReplaceAt(d, Parent(path), WithoutKid(NodeAt(d, Parent(path)), path[Len(path)]))

\* classList.add and classList.remove for the element at a path
AddClassAt(d, path, cls) == ReplaceAt(d, path, AddClass(NodeAt(d, path), cls))
RemoveClassAt(d, path, cls) == ReplaceAt(d, path, RemoveClass(NodeAt(d, path), cls))

\* root.querySelector('.cls'): the first descendant of the node at root, in
\* document order; NoPath when there is none
FirstOrNoPath(found) == IF found = <<>> THEN NoPath ELSE found[1]

QueryClass(d, root, cls) ==
    FirstOrNoPath(FilterSeq(PathsFrom(NodeAt(d, root), root),
                            LAMBDA p : p # root /\ HasClass(NodeAt(d, p), cls)))

\* document.querySelectorAll('.cls'), in document order
QueryAllClass(d, cls) ==
    FilterSeq(AllPaths(d), LAMBDA p : HasClass(NodeAt(d, p), cls))

\* document.getElementById(id) finds an element
HasElementById(d, id) ==
    \E p \in Range(AllPaths(d)) : IsElem(NodeAt(d, p)) /\ GetAttr(NodeAt(d, p), aId) = id

----------------------------------------------------------------------------
(* DesktopSidenotes and MobileSidenotes. The operators work on a record of *)
(* the document and the handlers: hover counts the mouseenter/mouseleave   *)
(* handler pairs of a sidenote, focus the focus/blur pairs of a number     *)
(* label, stored holds the sidenotes that have _desktopHandlers, toggles   *)
(* the toggle buttons that have their click handler                        *)

\* window.matchMedia('(min-width: 1101px)') and ('(max-width: 1100px)')
DesktopMinWidth == 1101
MobileMaxWidth == 1100
DesktopMatches(v) == v.innerWidth >= DesktopMinWidth
MobileMatches(v) == v.innerWidth <= MobileMaxWidth

SidenoteWidth == 240
SidenoteGap == 16
SidenoteMargin == 16
SidenoteMaxHeight == 300

NoHandlers == [p \in {} |-> 0]

HandlerCount(hs, p) == IF p \in DOMAIN hs THEN hs[p] ELSE 0

\* addEventListener with a new function, removeEventListener with one that
\* is attached
AddHandler(hs, p) == [q \in DOMAIN hs \cup {p} |-> HandlerCount(hs, q) + (IF q = p THEN 1 ELSE 0)]

RemoveHandler(hs, p) ==
    [q \in {r \in DOMAIN hs : r # p \/ hs[r] > 1} |-> hs[q] - (IF q = p THEN 1 ELSE 0)]

\* The variant that places the block beside the content column wherever
\* that is
SidenoteLeftUnclamped(v) == v.contentRight + SidenoteGap

\* The clamp of leftPos
SidenoteLeft(v) ==
    IF v.contentRight + SidenoteGap + SidenoteWidth > v.innerWidth - SidenoteMargin
    THEN v.innerWidth - SidenoteWidth - SidenoteMargin
    ELSE v.contentRight + SidenoteGap

\* The two clamps of topPos
SidenoteTop(v) ==
    LET topPos == IF v.top + SidenoteMaxHeight > v.innerHeight - SidenoteMargin
                  THEN v.innerHeight - SidenoteMaxHeight - SidenoteMargin
                  ELSE v.top
    IN IF topPos < SidenoteMargin THEN SidenoteMargin ELSE topPos

\* positionSidenote(sidenote, content): the document afterwards; v holds the
\* rectangle of the sidenote, the right edge of #content and the window
positionSidenote(d, content, v) ==
    IF ~HasElementById(d, <<"c","o","n","t","e","n","t">>) THEN d
    ELSE ReplaceAt(d, content,
                   StyleSet(StyleSet(NodeAt(d, content), pLeft, Px(SidenoteLeft(v))),
                            pTop, Px(SidenoteTop(v))))

\* The variant of showSidenote that does not display the block where there
\* is no room beside the content column
ShowContentIfRoom(d, content, v) ==
    IF v.contentRight + SidenoteGap + SidenoteWidth > v.innerWidth - SidenoteMargin THEN d
    ELSE AddClassAt(positionSidenote(d, content, v), content, cVisible)

\* showSidenote and hideSidenote, for the content block they hold and for
\* the sidenote at a path
ShowContent(d, content, v) == AddClassAt(positionSidenote(d, content, v), content, cVisible)

showSidenote(d, sidenote, v) == ShowContent(d, QueryClass(d, sidenote, cSidenoteContent), v)

HideContent(d, content) ==
    IF content = NoPath THEN d
    ELSE RemoveClassAt(d, content, cVisible)

hideSidenote(d, sidenote) == HideContent(d, QueryClass(d, sidenote, cSidenoteContent))

\* The body of the forEach in setup, for the parts the queries found
SetupParts(sn, sidenote, content, number) ==
    IF content = NoPath THEN sn
    ELSE [sn EXCEPT !.hover = AddHandler(@, sidenote),
                    !.focus = IF number = NoPath THEN @ ELSE AddHandler(@, number),
                    !.stored = @ \cup {sidenote}]

SetupSidenote(sn, sidenote) ==
    SetupParts(sn, sidenote, QueryClass(sn.doc, sidenote, cSidenoteContent),
               QueryClass(sn.doc, sidenote, cSidenoteNumber))

RECURSIVE SetupAll(_,_)
SetupAll(sn, sidenotes) ==
    IF sidenotes = <<>> THEN sn
    ELSE SetupAll(SetupSidenote(sn, Head(sidenotes)), Tail(sidenotes))

\* DesktopSidenotes.setup
setup(sn) == SetupAll(sn, QueryAllClass(sn.doc, cSidenote))

\* if (sidenote._desktopHandlers) { removeEventListener ...; delete ... }
RemoveDesktopHandlers(sn, sidenote) ==
    IF sidenote \in sn.stored
    THEN [sn EXCEPT !.hover = RemoveHandler(@, sidenote), !.stored = @ \ {sidenote}]
    ELSE sn

\* The body of the forEach in teardown
TeardownSidenote(sn, sidenote) ==
    RemoveDesktopHandlers(
        [sn EXCEPT !.doc = HideContent(@, QueryClass(@, sidenote, cSidenoteContent))],
        sidenote)

RECURSIVE TeardownAll(_,_)
TeardownAll(sn, sidenotes) ==
    IF sidenotes = <<>> THEN sn
    ELSE TeardownAll(TeardownSidenote(sn, Head(sidenotes)), Tail(sidenotes))

\* DesktopSidenotes.teardown
teardown(sn) == TeardownAll(sn, QueryAllClass(sn.doc, cSidenote))

\* The toggle button, the inline copy and the wrapper that convertToInline
\* creates
NewToggle(index) ==
    Elem(tButton,
         <<Attr(aClass, cToggle), Attr(aAriaExpanded, <<"f","a","l","s","e">>),
           Attr(aAriaLabel, <<"S","h","o","w"," ","n","o","t","e"," ">> \o NumberToString(index + 1))>>,
         ParseFragment(<<"<","s","p","a","n"," ","c","l","a","s","s","=","\"","s","i","d","e","n","o","t","e","-","m","o","b","i","l","e","-","n","u","m","b","e","r","\"",">">>
                       \o NumberToString(index + 1) \o <<"<","/","s","p","a","n",">">>))

NewInlineContent(content) ==
    Elem(tSpan, <<Attr(aClass, cInlineContent), Attr(aHidden, <<>>)>>,
         ParseFragment(innerHTML(content)))

NewWrapper(index, content) ==
    Elem(tSpan, <<Attr(aClass, cWrapper)>>, <<NewToggle(index), NewInlineContent(content)>>)

\* element.style.display = value for the element at a path, if there is one
SetDisplay(d, path, value) ==
    IF path = NoPath THEN d
    ELSE ReplaceAt(d, path, StyleSet(NodeAt(d, path), pDisplay, value))

\* The element at a path without its children
EmptyAt(d, path) == ReplaceAt(d, path, [NodeAt(d, path) EXCEPT !.kids = <<>>])

\* The variant of the forEach body in convertToInline that moves the
\* children of the content block into the inline copy
ConvertPartsMovesContent(sn, sidenote, index, content, number) ==
    IF content = NoPath THEN sn
    ELSE [sn EXCEPT
            !.doc = EmptyAt(AppendChild(
                                SetDisplay(SetDisplay(AddClassAt(@, sidenote, cConverted),
                                                      number, <<"n","o","n","e">>),
                                           content, <<"n","o","n","e">>),
                                sidenote, NewWrapper(index, NodeAt(@, content))),
                            content),
            !.toggles = @ \cup {sidenote \o <<Len(NodeAt(sn.doc, sidenote).kids) + 1, 1>>}]

\* The body of the forEach in convertToInline, for the parts the queries
\* found
ConvertParts(sn, sidenote, index, content, number) ==
    IF content = NoPath THEN sn
    ELSE [sn EXCEPT
            !.doc = AppendChild(
                        SetDisplay(SetDisplay(AddClassAt(@, sidenote, cConverted),
                                              number, <<"n","o","n","e">>),
                                   content, <<"n","o","n","e">>),
                        sidenote, NewWrapper(index, NodeAt(@, content))),
            !.toggles = @ \cup {sidenote \o <<Len(NodeAt(sn.doc, sidenote).kids) + 1, 1>>}]

\* The variant of the forEach callback in convertToInline without the test
\* for the converted marker
ConvertSidenoteAgain(sn, sidenote, index) ==
    ConvertParts(sn, sidenote, index, QueryClass(sn.doc, sidenote, cSidenoteContent),
                 QueryClass(sn.doc, sidenote, cSidenoteNumber))

\* The callback of the forEach in convertToInline
ConvertSidenote(sn, sidenote, index) ==
    IF HasClass(NodeAt(sn.doc, sidenote), cConverted) THEN sn
    ELSE ConvertParts(sn, sidenote, index, QueryClass(sn.doc, sidenote, cSidenoteContent),
                      QueryClass(sn.doc, sidenote, cSidenoteNumber))

RECURSIVE ConvertAll(_,_,_)
ConvertAll(sn, sidenotes, index) ==
    IF sidenotes = <<>> THEN sn
    ELSE ConvertAll(ConvertSidenote(sn, Head(sidenotes), index), Tail(sidenotes), index + 1)

\* MobileSidenotes.convertToInline
convertToInline(sn) == ConvertAll(sn, QueryAllClass(sn.doc, cSidenote), 0)

\* if (wrapper) wrapper.remove()
RemoveWrapper(d, wrapper) == IF wrapper = NoPath THEN d ELSE RemoveNode(d, wrapper)

\* The variant of the forEach body in revertToSidenotes that leaves the
\* wrapper where it is
RevertPartsLeavesWrapper(sn, sidenote, wrapper, number, content) ==
    [sn EXCEPT
        !.doc = RemoveClassAt(SetDisplay(SetDisplay(@, number, <<>>), content, <<>>),
                              sidenote, cConverted)]

\* The body of the forEach in revertToSidenotes, for the parts the queries
\* found; the wrapper is the last child of its sidenote, so that no other
\* path changes when it goes
RevertParts(sn, sidenote, wrapper, number, content) ==
    [sn EXCEPT
        !.doc = RemoveClassAt(
                    RemoveWrapper(SetDisplay(SetDisplay(@, number, <<>>), content, <<>>), wrapper),
                    sidenote, cConverted),
        !.toggles = {t \in @ : wrapper = NoPath \/ ~IsPrefix(wrapper, t)}]

RevertSidenote(sn, sidenote) ==
    RevertParts(sn, sidenote, QueryClass(sn.doc, sidenote, cWrapper),
                QueryClass(sn.doc, sidenote, cSidenoteNumber),
                QueryClass(sn.doc, sidenote, cSidenoteContent))

RECURSIVE RevertAll(_,_)
RevertAll(sn, sidenotes) ==
    IF sidenotes = <<>> THEN sn
    ELSE RevertAll(RevertSidenote(sn, Head(sidenotes)), Tail(sidenotes))

\* MobileSidenotes.revertToSidenotes
revertToSidenotes(sn) == RevertAll(sn, QueryAllClass(sn.doc, cConverted))

\* inlineContent.hidden = hidden for the element at a path
SetHidden(d, path, hidden) ==
    ReplaceAt(d, path, IF hidden THEN SetAttr(NodeAt(d, path), aHidden, <<>>)
                       ELSE RemoveAttr(NodeAt(d, path), aHidden))

\* The click handler of a toggle, for the toggle and the inline copy it
\* holds and for the value of isExpanded
ToggleParts(d, toggle, inlineContent, isExpanded) ==
    SetHidden(ReplaceAt(d, toggle,
                        ToggleClass(SetAttr(NodeAt(d, toggle), aAriaExpanded,
                                            IF isExpanded THEN <<"f","a","l","s","e">> ELSE <<"t","r","u","e">>),
                                    cActive, ~isExpanded)),
              inlineContent, isExpanded)

\* The click handler of the toggle at a path: the document afterwards. The
\* inline copy is the next child of the wrapper
toggleClick(d, toggle) ==
    ToggleParts(d, toggle, Append(Parent(toggle), toggle[Len(toggle)] + 1),
                GetAttr(NodeAt(d, toggle), aAriaExpanded) = <<"t","r","u","e">>)

\* DesktopSidenotes.init and MobileSidenotes.init, up to the registration of
\* the change callbacks
DesktopSidenotesInit(sn, v) == IF DesktopMatches(v) THEN setup(sn) ELSE sn
MobileSidenotesInit(sn, v) == IF MobileMatches(v) THEN convertToInline(sn) ELSE sn

\* The change callbacks of the two media queries
DesktopChange(sn, v) == IF DesktopMatches(v) THEN setup(sn) ELSE teardown(sn)
MobileChange(sn, v) == IF MobileMatches(v) THEN convertToInline(sn) ELSE revertToSidenotes(sn)

\* The element under the pointer, or the one with the focus, after
\* applyDropcaps: an element of a rebuilt paragraph is no longer in the page
PointerAfterDropcaps(p, d, d2) ==
    IF p \in DOMAIN AfterDropcaps([q \in {p} |-> 1], d, d2) THEN p ELSE NoPath

\* What is left of the handlers after applyDropcaps: the nodes of a rebuilt
\* paragraph are new ones, without handlers and without _desktopHandlers
SidenotesAfterDropcaps(sn, d2) ==
    [doc |-> d2,
     hover |-> AfterDropcaps(sn.hover, sn.doc, d2),
     focus |-> AfterDropcaps(sn.focus, sn.doc, d2),
     stored |-> DOMAIN AfterDropcaps([p \in sn.stored |-> 1], sn.doc, d2),
     toggles |-> DOMAIN AfterDropcaps([p \in sn.toggles |-> 1], sn.doc, d2)]

----------------------------------------------------------------------------
(* The pages and glossaries the model runs on                              *)

tBody == <<"b","o","d","y">>

\* Pages, as the body element's tree:
\*   1  two terms, one of them twice
\*   2  a heading inside a blockquote
\*   3  a code element inside a list item
\*   4  no content root
\*   5  a hand-authored definition link
\*   6  text with a less-than sign
\*   7  text that spells a character reference
\*   8  a content root inside a content root
\*   9  content roots inside an anchor and inside a heading
\*  10  other letter case, longer words, a metacharacter
\*  11  a long lead paragraph of a writing region
\*  12  a term between other words
PagePool ==
    << Elem(tBody, <<>>, <<Elem(tArticle, <<>>, <<Elem(tP, <<>>, <<Text(<<"G","r","a","c","e"," ","a","n","d"," ","M","e","r","c","y",","," ","G","r","a","c","e">>)>>)>>)>>),
       Elem(tBody, <<>>, <<Elem(tBlockquote, <<>>, <<Elem(tH2, <<>>, <<Text(<<"G","r","a","c","e">>)>>), Text(<<"o","f"," ","A","s","l","a","n">>)>>)>>),
       Elem(tBody, <<>>, <<Elem(tArticle, <<>>, <<Elem(tLi, <<>>, <<Text(<<"s","e","e"," ">>), Elem(tCode, <<>>, <<Text(<<"G","r","a","c","e">>)>>)>>)>>)>>),
       Elem(tBody, <<>>, <<Elem(tDiv, <<>>, <<Elem(tP, <<>>, <<Text(<<"G","r","a","c","e">>)>>)>>)>>),
       Elem(tBody, <<>>, <<Elem(tArticle, <<>>, <<Elem(tP, <<>>, <<Text(<<"b","y"," ">>), Elem(tA, <<Attr(aHref, <<"d","e","f","i","n","i","t","i","o","n","s",".","h","t","m","l","#","g","r","a","c","e">>), Attr(aClass, <<"d","e","f","i","n","i","t","i","o","n","-","l","i","n","k">>), Attr(aDataTerm, <<"G","r","a","c","e">>), Attr(aDataDefinition, <<"F","a","v","o","r">>)>>, <<Text(<<"G","r","a","c","e">>)>>), Text(<<" ","o","f"," ","A","s","l","a","n">>)>>)>>)>>),
       Elem(tBody, <<>>, <<Elem(tArticle, <<>>, <<Elem(tP, <<>>, <<Text(<<"x","<","y"," ","G","r","a","c","e">>)>>)>>)>>),
       Elem(tBody, <<>>, <<Elem(tArticle, <<>>, <<Elem(tP, <<>>, <<Text(<<"A","T","&","a","m","p",";","T"," ","G","r","a","c","e">>)>>)>>)>>),
       Elem(tBody, <<>>, <<Elem(tArticle, <<>>, <<Elem(tDiv, <<Attr(aClass, <<"w","r","i","t","i","n","g","-","c","o","n","t","e","n","t">>)>>, <<Elem(tP, <<>>, <<Text(<<"A","s","l","a","n">>)>>)>>)>>)>>),
       Elem(tBody, <<>>, <<Elem(tA, <<Attr(aHref, <<"x",".","h","t","m","l">>)>>, <<Elem(tBlockquote, <<>>, <<Text(<<"G","r","a","c","e">>)>>)>>), Elem(tH3, <<>>, <<Elem(tBlockquote, <<>>, <<Text(<<"M","e","r","c","y">>)>>)>>)>>),
       Elem(tBody, <<>>, <<Elem(tDiv, <<Attr(aClass, <<"a","b","s","t","r","a","c","t">>)>>, <<Elem(tP, <<>>, <<Text(<<"g","r","a","c","e"," ","G","r","a","c","e","f","u","l"," ","C","X","S"," ","C",".","S">>)>>)>>)>>),
       Elem(tBody, <<>>, <<Elem(tArticle, <<>>, <<Elem(tDiv, <<Attr(aClass, <<"w","r","i","t","i","n","g","-","c","o","n","t","e","n","t">>)>>, <<Elem(tP, <<>>, <<Elem(tEm, <<>>, <<Text(<<"A","s","l","a","n">>)>>), Text(<<" ","i","s"," ","n","o","t"," ","a"," ","t","a","m","e"," ","l","i","o","n",","," ","s","a","i","d"," ","M","r"," ","B","e","a","v","e","r"," ","o","f"," ","G","r","a","c","e"," ","t","o"," ","t","h","e","m",".">>)>>)>>)>>)>>),
       Elem(tBody, <<>>, <<Elem(tBlockquote, <<>>, <<Text(<<"t","h","e"," ","M","e","r","c","y"," ","o","f"," ","G","r","a","c","e">>)>>)>>) >>

\* Glossary documents, as the parts of their .definition-entry elements:
\*   1  no entry
\*   2  one term
\*   3  two terms
\*   4  a preview that holds another term
\*   5  a term with an ampersand
\*   6  entries with missing parts
\*   7  two entries with one lower-cased name
\*   8  a term with a metacharacter
\*   9  a term inside another term
GlossaryPool ==
    << <<>>,
       <<[hasTerm |-> TRUE, term |-> <<" ","G","r","a","c","e"," ">>, hasContent |-> TRUE, body |-> <<"F","a","v","o","r">>, id |-> <<"g","r","a","c","e">>]>>,
       <<[hasTerm |-> TRUE, term |-> <<"G","r","a","c","e">>, hasContent |-> TRUE, body |-> <<"F","a","v","o","r">>, id |-> <<"g","r","a","c","e">>],
          [hasTerm |-> TRUE, term |-> <<"M","e","r","c","y">>, hasContent |-> TRUE, body |-> <<"P","i","t","y"," ","\"","s","h","o","w","n","\"">>, id |-> <<"m","e","r","c","y">>]>>,
       <<[hasTerm |-> TRUE, term |-> <<"A","s","l","a","n">>, hasContent |-> TRUE, body |-> <<"G","r","a","c","e"," ","l","i","o","n">>, id |-> <<"a","s","l","a","n">>],
          [hasTerm |-> TRUE, term |-> <<"G","r","a","c","e">>, hasContent |-> TRUE, body |-> <<"F","a","v","o","r">>, id |-> <<"g","r","a","c","e">>]>>,
       <<[hasTerm |-> TRUE, term |-> <<"G","r","a","c","e">>, hasContent |-> TRUE, body |-> <<"F","a","v","o","r">>, id |-> <<"g","r","a","c","e">>],
          [hasTerm |-> TRUE, term |-> <<"A","T","&","T">>, hasContent |-> TRUE, body |-> <<"P","h","o","n","e","s">>, id |-> <<"a","t","t">>]>>,
       <<[hasTerm |-> FALSE, term |-> <<>>, hasContent |-> TRUE, body |-> <<"L","o","s","t">>, id |-> <<"x">>],
          [hasTerm |-> TRUE, term |-> <<"M","e","r","c","y">>, hasContent |-> TRUE, body |-> <<"P","i","t","y">>, id |-> <<>>],
          [hasTerm |-> TRUE, term |-> <<"A","s","l","a","n">>, hasContent |-> FALSE, body |-> <<>>, id |-> <<"a","s","l","a","n">>],
          [hasTerm |-> TRUE, term |-> <<" ">>, hasContent |-> TRUE, body |-> <<"V","o","i","d">>, id |-> <<"b","l","a","n","k">>],
          [hasTerm |-> TRUE, term |-> <<"G","r","a","c","e">>, hasContent |-> TRUE, body |-> <<"F","a","v","o","r">>, id |-> <<"g","r","a","c","e">>]>>,
       <<[hasTerm |-> TRUE, term |-> <<"G","r","a","c","e">>, hasContent |-> TRUE, body |-> <<"F","a","v","o","r">>, id |-> <<"g","r","a","c","e">>],
          [hasTerm |-> TRUE, term |-> <<"G","R","A","C","E">>, hasContent |-> TRUE, body |-> <<"L","o","u","d">>, id |-> <<"s","h","o","u","t">>]>>,
       <<[hasTerm |-> TRUE, term |-> <<"C",".","S">>, hasContent |-> TRUE, body |-> <<"L","e","w","i","s">>, id |-> <<"c","s">>]>>,
       <<[hasTerm |-> TRUE, term |-> <<"M","e","r","c","y"," ","o","f"," ","G","r","a","c","e">>, hasContent |-> TRUE, body |-> <<"B","o","t","h">>, id |-> <<"m","o","g">>],
          [hasTerm |-> TRUE, term |-> <<"G","r","a","c","e">>, hasContent |-> TRUE, body |-> <<"F","a","v","o","r">>, id |-> <<"g","r","a","c","e">>]>> >>

PathPool == << <<"/","i","n","d","e","x",".","h","t","m","l">>,
              <<"/","p","a","g","e","s","/","q","u","o","t","e","s",".","h","t","m","l">>,
              <<"/","p","a","g","e","s","/","w","r","i","t","i","n","g","/","e","s","s","a","y",".","h","t","m","l">>,
              <<"/","p","a","g","e","s","/","d","e","f","i","n","i","t","i","o","n","s",".","h","t","m","l">>,
              <<"/","a","b","o","u","t","/","i","n","d","e","x",".","h","t","m","l">> >>

NoLocation == <<>>

\* Windows and link rectangles, in pixels:
\*   1  a link high in a tall window
\*   2  a link at the bottom edge of a tall window
\*   3  a link in the upper half of a low window
\*   4  a link in the lower half of a low window
\*   5  a narrow window
\*   6  a page scrolled sideways
\*   7  a link with just the popup's height below it
ViewPool ==
    << [top |-> 100, bottom |-> 120, left |-> 200, innerHeight |-> 800, innerWidth |-> 1200, contentRight |-> 900, scrollX |-> 0, scrollY |-> 0],
       [top |-> 760, bottom |-> 780, left |-> 900, innerHeight |-> 800, innerWidth |-> 1200, contentRight |-> 900, scrollX |-> 0, scrollY |-> 300],
       [top |-> 50, bottom |-> 70, left |-> 40, innerHeight |-> 200, innerWidth |-> 1200, contentRight |-> 900, scrollX |-> 0, scrollY |-> 0],
       [top |-> 100, bottom |-> 120, left |-> 40, innerHeight |-> 200, innerWidth |-> 1200, contentRight |-> 900, scrollX |-> 0, scrollY |-> 0],
       [top |-> 100, bottom |-> 120, left |-> 10, innerHeight |-> 800, innerWidth |-> 400, contentRight |-> 380, scrollX |-> 0, scrollY |-> 0],
       [top |-> 100, bottom |-> 120, left |-> 500, innerHeight |-> 800, innerWidth |-> 800, contentRight |-> 760, scrollX |-> 500, scrollY |-> 0],
       [top |-> 500, bottom |-> 520, left |-> 200, innerHeight |-> 680, innerWidth |-> 1200, contentRight |-> 900, scrollX |-> 0, scrollY |-> 0],
       [top |-> 300, bottom |-> 320, left |-> 700, innerHeight |-> 600, innerWidth |-> 1000, contentRight |-> 940, scrollX |-> 0, scrollY |-> 40] >>

DefaultView == ViewPool[1]

\* The window after a resize below the threshold of the sidenote modules
NarrowView == ViewPool[6]

\* The pages and glossaries of the runs that exercise the popup: a page with
\* a hand-authored link, a page that gets three links, a page with a dropcap;
\* a glossary of two terms, one whose second entry has a blank body, one
\* with a term inside another term's body
PopupPagePool == << PagePool[5], PagePool[1], PagePool[11] >>

PopupGlossaryPool ==
    << GlossaryPool[3],
       <<[hasTerm |-> TRUE, term |-> <<"G","r","a","c","e">>, hasContent |-> TRUE, body |-> <<"F","a","v","o","r">>, id |-> <<"g","r","a","c","e">>],
         [hasTerm |-> TRUE, term |-> <<"M","e","r","c","y">>, hasContent |-> TRUE, body |-> <<" ">>, id |-> <<"m","e","r","c","y">>]>>,
       GlossaryPool[4] >>

\* How many of the pages, glossaries and page paths a run draws from
MaxPage == 11
MaxGlossary == 8
MaxPath == 4
\* How many of the windows a run draws from
MaxView == 7
\* The longest definition body (the text of .definition-content p, without
\* the white space around it) a run loads
MaxBody == 152
\* How many of the popup pages and popup glossaries a run draws from
MaxPopupPage == 2
MaxPopupGlossary == 2
\* How often the annotation pass runs
MaxPasses == 2
\* How many user events a run handles
MaxEvents == 2

Prefix(pool, max) == {pool[i] : i \in 1..(IF max < Len(pool) THEN max ELSE Len(pool))}

Pages == Prefix(PagePool, MaxPage)
Glossaries == Prefix(GlossaryPool, MaxGlossary)
Paths == Prefix(PathPool, MaxPath)
Views == Prefix(ViewPool, MaxView)
PopupPages == Prefix(PopupPagePool, MaxPopupPage)
PopupGlossaries == Prefix(PopupGlossaryPool, MaxPopupGlossary)

\* A sidenote in the documented markup; the number label can take the
\* keyboard focus where the page gives it a tabindex
SidenoteNumber == Elem(tSpan, <<Attr(aClass, cSidenoteNumber), Attr(aTabindex, <<"0">>)>>, <<>>)
SidenoteContent(text) == Elem(tSpan, <<Attr(aClass, cSidenoteContent)>>, <<Text(text)>>)
Sidenote(parts) == Elem(tSpan, <<Attr(aClass, cSidenote)>>, parts)

\* Pages with sidenotes:
\*   1  inside #content, a long lead paragraph with a sidenote and a second
\*      paragraph with a sidenote
\*   2  no #content; a sidenote without number label and one without content
\*   3  inside #content, two sidenotes in one short paragraph
SidenotePagePool ==
    << Elem(tBody, <<>>, <<Elem(tDiv, <<Attr(aId, <<"c","o","n","t","e","n","t">>)>>, <<Elem(tArticle, <<>>, <<Elem(tSection, <<>>,
           <<Elem(tP, <<>>, <<Text(<<"A","s","l","a","n"," ","i","s"," ","o","n"," ","t","h","e"," ","m","o","v","e",","," ","s","a","i","d"," ","M","r"," ","B","e","a","v","e","r"," ","t","o"," ","t","h","e"," ","c","h","i","l","d","r","e","n">>),
                              Sidenote(<<SidenoteNumber, SidenoteContent(<<"I","n"," ","c","h","a","p","t","e","r"," ","s","e","v","e","n">>)>>),
                              Text(<<" ","a","t"," ","t","h","e"," ","d","a","m",".">>)>>),
             Elem(tP, <<>>, <<Text(<<"T","h","e","y"," ","h","e","a","r","d"," ","i","t">>),
                              Sidenote(<<SidenoteNumber, SidenoteContent(<<"A","n","d"," ","f","e","l","t"," ","G","r","a","c","e">>)>>)>>)>>)>>)>>)>>),
       Elem(tBody, <<>>, <<Elem(tArticle, <<>>,
           <<Elem(tP, <<>>, <<Text(<<"W","i","n","t","e","r">>),
                              Sidenote(<<SidenoteContent(<<"A","l","w","a","y","s">>)>>),
                              Text(<<" ","a","n","d"," ","n","e","v","e","r"," ","C","h","r","i","s","t","m","a","s">>),
                              Sidenote(<<SidenoteNumber>>)>>)>>)>>),
       Elem(tBody, <<>>, <<Elem(tDiv, <<Attr(aId, <<"c","o","n","t","e","n","t">>)>>,
           <<Elem(tP, <<>>, <<Text(<<"S","p","r","i","n","g">>),
                              Sidenote(<<SidenoteNumber, SidenoteContent(<<"A","t"," ","l","a","s","t">>)>>),
                              Sidenote(<<SidenoteNumber, SidenoteContent(<<"S","o","o","n">>)>>)>>)>>)>>) >>

\* Windows, sidenote rectangles and right edges of #content:
\*   1  the narrowest desktop window, room beside the content column
\*   2  the widest mobile window
\*   3  a desktop window whose content column leaves no room beside it
\*   4  a sidenote near the lower edge of a desktop window
\*   5  a sidenote near the upper edge of a low desktop window
\*   6  a narrow mobile window
SidenoteViewPool ==
    << [top |-> 100, bottom |-> 120, left |-> 200, innerHeight |-> 800, innerWidth |-> 1101, contentRight |-> 800, scrollX |-> 0, scrollY |-> 0],
       [top |-> 100, bottom |-> 120, left |-> 200, innerHeight |-> 800, innerWidth |-> 1100, contentRight |-> 1000, scrollX |-> 0, scrollY |-> 0],
       [top |-> 100, bottom |-> 120, left |-> 200, innerHeight |-> 800, innerWidth |-> 1200, contentRight |-> 1000, scrollX |-> 0, scrollY |-> 0],
       [top |-> 700, bottom |-> 720, left |-> 200, innerHeight |-> 800, innerWidth |-> 1300, contentRight |-> 900, scrollX |-> 0, scrollY |-> 600],
       [top |-> 10, bottom |-> 30, left |-> 200, innerHeight |-> 300, innerWidth |-> 1300, contentRight |-> 900, scrollX |-> 0, scrollY |-> 0],
       [top |-> 100, bottom |-> 120, left |-> 20, innerHeight |-> 700, innerWidth |-> 400, contentRight |-> 380, scrollX |-> 0, scrollY |-> 0] >>

\* How many of the sidenote pages and of the sidenote windows a run draws from
MaxSidenotePage == 3
MaxSidenoteView == 4
\* How many sidenote events and resizes a run handles
MaxSidenoteEvents == 3

SidenotePages == Prefix(SidenotePagePool, MaxSidenotePage)
SidenoteViews == Prefix(SidenoteViewPool, MaxSidenoteView)

----------------------------------------------------------------------------
(* The page's life: init() and the events that follow                      *)

\* The variant with a registry that is not empty at construction.
SomeDefinitions ==
    <<[key |-> <<"g","r","a","c","e">>, term |-> <<"G","r","a","c","e">>,
       slug |-> <<"g","r","a","c","e">>, preview |-> <<"F","a","v","o","r">>]>>

\* definitions: {}
NoDefinitions == <<>>

\* The document and the handlers of the sidenote modules, and what an
\* operation leaves of them
Notes == [doc |-> doc, hover |-> hoverHandlers, focus |-> focusHandlers,
          stored |-> desktopHandlers, toggles |-> toggleHandlers]

NotesBecome(sn) ==
    /\ doc' = sn.doc
    /\ hoverHandlers' = sn.hover
    /\ focusHandlers' = sn.focus
    /\ desktopHandlers' = sn.stored
    /\ toggleHandlers' = sn.toggles

Init ==
    /\ pathname \in Paths
    /\ glossary \in Glossaries
    /\ doc \in Pages
    /\ doc0 = doc
    /\ isTouch \in BOOLEAN
    /\ wide \in BOOLEAN
    /\ definitions = NoDefinitions
    /\ defsAtLoad = <<>>
    /\ fetchOutcome = "none"
    /\ pc = "start"
    /\ passes = 0
    /\ fetches = 0
    /\ loadFailed = FALSE
    /\ initError = FALSE
    /\ popups = 0
    /\ popupShown = FALSE
    /\ popupTimer = {}
    /\ timeout = 0
    /\ activeLink = NoLink
    /\ popupStyle = NoStyle
    /\ view = (IF wide THEN DefaultView ELSE NarrowView)
    /\ defaultPrevented = FALSE
    /\ location = NoLocation
    /\ popupContent = NoContent
    /\ hoverHandlers = NoHandlers
    /\ focusHandlers = NoHandlers
    /\ desktopHandlers = {}
    /\ toggleHandlers = {}
    /\ mqPending = FALSE
    /\ pointerOver = NoPath
    /\ numberFocused = NoPath
    /\ listeners = NoListeners
    /\ events = 0

\* The state in which the continuation of AutoEnhance.init reaches
\* linkDefinitions when the glossary has loaded and no event has come in
\* between, on a wide viewport without touch input
InitAnnotateFrom(pages, glossaries) ==
    /\ pathname \in Paths
    /\ glossary \in glossaries
    /\ doc0 \in pages
    /\ doc = applyDropcaps(doc0)
    /\ listeners = AfterDropcaps(attachDefinitionListeners(NoListeners, doc0), doc0, doc)
    /\ isTouch = FALSE
    /\ wide = TRUE
    /\ definitions = StoreEntries(NoDefinitions, glossary)
    /\ defsAtLoad = definitions
    /\ fetchOutcome = "ok"
    /\ pc = "dropcapped"
    /\ passes = 0
    /\ fetches = 1
    /\ loadFailed = FALSE
    /\ initError = FALSE
    /\ popups = 1
    /\ popupShown = FALSE
    /\ popupTimer = {}
    /\ timeout = 0
    /\ activeLink = NoLink
    /\ popupStyle = NoStyle
    /\ view = DefaultView
    /\ defaultPrevented = FALSE
    /\ location = NoLocation
    /\ popupContent = NoContent
    /\ hoverHandlers = NoHandlers
    /\ focusHandlers = NoHandlers
    /\ desktopHandlers = {}
    /\ toggleHandlers = {}
    /\ mqPending = FALSE
    /\ pointerOver = NoPath
    /\ numberFocused = NoPath
    /\ events = 0

\* init(): AutoEnhance.init runs up to the fetch and is not awaited, then
\* LinkPopup.init creates the popup and attaches the handlers, then
\* DesktopSidenotes.init and MobileSidenotes.init set up the mode of the
\* window's width
Start ==
    /\ pc = "start"
    /\ pc' = "fetching"
    /\ fetches' = fetches + 1
    /\ popups' = popups + 1
    /\ listeners' = attachDefinitionListeners(listeners, doc)
    /\ \E sn \in {MobileSidenotesInit(DesktopSidenotesInit(Notes, view), view)} :
           NotesBecome(sn)
    /\ UNCHANGED <<pointerVars, mqPending, pathname, glossary, fetchOutcome, definitions, doc0, passes,
                   loadFailed, initError, defsAtLoad, popupShown, popupTimer,
                   popupContent, wide, isTouch, events,
                   timeout, activeLink, popupStyle, view, defaultPrevented, location>>

\* How loadDefinitions ends without a registry: it returns to init, or its
\* rejection becomes the rejection of init
LoadEnds(outcome) ==
    /\ fetchOutcome' = outcome
    /\ loadFailed' = TRUE
    /\ IF loadDefinitionsEnds(outcome) = "throws"
       THEN pc' = "failed" /\ initError' = TRUE /\ UNCHANGED defsAtLoad
       ELSE pc' = "loaded" /\ defsAtLoad' = definitions /\ UNCHANGED initError

\* The request settles: await fetch(definitionsPath), if (!response.ok) return
FetchSettles ==
    /\ pc = "fetching"
    /\ ~mqPending
    /\ \E outcome \in {"ok", "notok", "reject"} :
           IF outcome = "ok"
           THEN pc' = "reading" /\ UNCHANGED <<fetchOutcome, loadFailed, initError, defsAtLoad>>
           ELSE LoadEnds(outcome)
    /\ UNCHANGED <<pointerVars, sidenoteVars, pathname, glossary, definitions, doc, doc0, passes, fetches, popups,
                   popupShown, popupTimer, popupContent, wide, isTouch, events, listeners,
                   timeout, activeLink, popupStyle, view, defaultPrevented, location>>

\* The body arrives: await response.text(), the parse and the forEach
TextSettles ==
    /\ pc = "reading"
    /\ ~mqPending
    /\ \E outcome \in {"ok", "textfail"} :
           IF outcome = "ok"
           THEN /\ definitions' = StoreEntries(definitions, glossary)
                /\ defsAtLoad' = definitions'
                /\ fetchOutcome' = "ok"
                /\ pc' = "loaded"
                /\ UNCHANGED <<loadFailed, initError>>
           ELSE LoadEnds(outcome) /\ UNCHANGED definitions
    /\ UNCHANGED <<pointerVars, sidenoteVars, pathname, glossary, doc, doc0, passes, fetches, popups,
                   popupShown, popupTimer, popupContent, wide, isTouch, events, listeners,
                   timeout, activeLink, popupStyle, view, defaultPrevented, location>>

\* init goes on after the await: this.applyDropcaps()
ApplyDropcapsStep ==
    /\ pc = "loaded"
    /\ pc' = "dropcapped"
    /\ \E d2 \in {applyDropcaps(doc)} :
           \E sn \in {SidenotesAfterDropcaps(Notes, d2)} : NotesBecome(sn)
    /\ listeners' = AfterDropcaps(listeners, doc, doc')
    /\ activeLink' = ActiveAfterDropcaps(activeLink, listeners, listeners')
    /\ pointerOver' = PointerAfterDropcaps(pointerOver, doc, doc')
    /\ numberFocused' = PointerAfterDropcaps(numberFocused, doc, doc')
    /\ UNCHANGED <<mqPending, pathname, glossary, fetchOutcome, definitions, doc0, passes, fetches,
                   loadFailed, initError, defsAtLoad, popups, popupShown, popupTimer,
                   popupContent, wide, isTouch, events,
                   timeout, popupStyle, view, defaultPrevented, location>>

\* this.linkDefinitions()
LinkStep ==
    /\ pc = "dropcapped"
    /\ pc' = "linked"
    /\ doc0' = doc
    /\ doc' = linkDefinitions(doc, definitions, pathname)
    /\ passes' = passes + 1
    /\ UNCHANGED <<pointerVars, sidenoteVars, pathname, glossary, fetchOutcome, definitions, fetches, loadFailed,
                   initError, defsAtLoad, popups, popupShown, popupTimer, popupContent,
                   wide, isTouch, events, listeners,
                   timeout, activeLink, popupStyle, view, defaultPrevented, location>>

\* this.enhanceWritingContent()
EnhanceStep ==
    /\ pc = "linked"
    /\ pc' = "enhanced"
    /\ doc' = enhanceWritingContent(doc)
    /\ UNCHANGED <<pointerVars, sidenoteVars, pathname, glossary, fetchOutcome, definitions, doc0, passes, fetches,
                   loadFailed, initError, defsAtLoad, popups, popupShown, popupTimer,
                   popupContent, wide, isTouch, events, listeners,
                   timeout, activeLink, popupStyle, view, defaultPrevented, location>>

\* LinkPopup.attachDefinitionListeners(), the last statement of init
AttachStep ==
    /\ pc = "enhanced"
    /\ pc' = "done"
    /\ listeners' = attachDefinitionListeners(listeners, doc)
    /\ UNCHANGED <<pointerVars, sidenoteVars, pathname, glossary, fetchOutcome, definitions, doc, doc0, passes,
                   fetches, loadFailed, initError, defsAtLoad, popups, popupShown,
                   popupTimer, popupContent, wide, isTouch, events,
                   timeout, activeLink, popupStyle, view, defaultPrevented, location>>

\* window.WikiEnhance.AutoEnhance.linkDefinitions(), called on the finished page
Relink ==
    /\ pc = "done"
    /\ passes < MaxPasses
    /\ doc0' = doc
    /\ doc' = linkDefinitions(doc, definitions, pathname)
    /\ passes' = passes + 1
    /\ UNCHANGED <<pointerVars, sidenoteVars, pathname, glossary, fetchOutcome, definitions, pc, fetches, loadFailed,
                   initError, defsAtLoad, popups, popupShown, popupTimer, popupContent,
                   wide, isTouch, events, listeners,
                   timeout, activeLink, popupStyle, view, defaultPrevented, location>>

\* The event loop takes an event only between the pieces of init, only
\* while the page is shown, and not between the two media-query callbacks
\* of one resize
Idle ==
    /\ pc \in {"fetching", "reading", "done", "failed"}
    /\ location = NoLocation
    /\ ~mqPending

Popup == [shown |-> popupShown, timer |-> popupTimer, timeout |-> timeout,
          content |-> popupContent, style |-> popupStyle,
          activeLink |-> activeLink, prevented |-> FALSE]

\* The handlers a link has for one event run one after the other, once for
\* every time they were attached (LinkPopup.init and AutoEnhance.init attach
\* them, so no link has them more than twice)
Handled(ui, n, Handler(_)) ==
    IF n = 0 THEN ui ELSE IF n = 1 THEN Handler(ui) ELSE Handler(Handler(ui))

\* What an event leaves of the popup
Becomes(ui) ==
    /\ popupShown' = ui.shown
    /\ popupTimer' = ui.timer
    /\ timeout' = ui.timeout
    /\ popupContent' = ui.content
    /\ popupStyle' = ui.style
    /\ activeLink' = ui.activeLink

\* One event on a link that has handlers
LinkEvent(link, Handler(_)) ==
    /\ Idle
    /\ events < MaxEvents
    /\ events' = events + 1
    /\ Becomes(Handled(Popup, listeners[link], Handler))
    /\ UNCHANGED <<pointerVars, sidenoteVars, pathname, glossary, fetchOutcome, definitions, doc, doc0, pc, passes,
                   fetches, loadFailed, initError, defsAtLoad, popups, wide, isTouch,
                   listeners, view, defaultPrevented, location>>

\* mouseenter: if (!this.isTouchDevice) this.show(e)
MouseEnterOn(link) ==
    LinkEvent(link, LAMBDA ui : IF isTouch THEN ui
                                ELSE show(ui, NodeAt(doc, link), isTouch, view))

MouseEnter == \E link \in DOMAIN listeners : MouseEnterOn(link)

\* mouseleave: if (!this.isTouchDevice) this.hide()
MouseLeave ==
    \E link \in DOMAIN listeners :
        LinkEvent(link, LAMBDA ui : IF isTouch THEN ui ELSE hide(ui))

\* focus: this.show(e)
FocusOn(link) == LinkEvent(link, LAMBDA ui : show(ui, NodeAt(doc, link), isTouch, view))

Focus == \E link \in DOMAIN listeners : FocusOn(link)

\* blur: this.hide()
Blur ==
    \E link \in DOMAIN listeners : LinkEvent(link, LAMBDA ui : hide(ui))

\* How often the handlers of a link were attached
Attached(link) == IF link \in DOMAIN listeners THEN listeners[link] ELSE 0

\* A click or tap on a definition link: its click handlers run, and unless
\* one of them called preventDefault the browser follows the link. (No link
\* of these pages has a same-page href, which SmoothScroll would handle.)
Click(link) ==
    /\ Idle
    /\ events < MaxEvents
    /\ events' = events + 1
    /\ link \in DefinitionLinks(doc)
    /\ LET ui == Handled(Popup, Attached(link),
                         LAMBDA u : click(u, link, NodeAt(doc, link), isTouch, view))
       IN /\ Becomes(ui)
          /\ defaultPrevented' = ui.prevented
          /\ location' = IF ui.prevented THEN location
                         ELSE GetAttr(NodeAt(doc, link), aHref)
    /\ UNCHANGED <<pointerVars, sidenoteVars, pathname, glossary, fetchOutcome, definitions, doc, doc0, pc, passes,
                   fetches, loadFailed, initError, defsAtLoad, popups, wide, isTouch,
                   listeners, view>>

ClickLink == \E link \in DefinitionLinks(doc) : Click(link)

\* A click on the popup's close button, which is there to click while the
\* popup is visible
CloseClick ==
    /\ Idle
    /\ popupShown
    /\ events < MaxEvents
    /\ events' = events + 1
    /\ Becomes(dismiss(Popup))
    /\ UNCHANGED <<pointerVars, sidenoteVars, pathname, glossary, fetchOutcome, definitions, doc, doc0, pc, passes,
                   fetches, loadFailed, initError, defsAtLoad, popups, wide, isTouch,
                   listeners, view, defaultPrevented, location>>

\* touchstart outside the popup and outside every definition link; the
\* handler is registered on a touch device only
TouchOutside ==
    /\ Idle
    /\ isTouch
    /\ popups > 0
    /\ events < MaxEvents
    /\ events' = events + 1
    /\ Becomes(dismiss(Popup))
    /\ UNCHANGED <<pointerVars, sidenoteVars, pathname, glossary, fetchOutcome, definitions, doc, doc0, pc, passes,
                   fetches, loadFailed, initError, defsAtLoad, popups, wide, isTouch,
                   listeners, view, defaultPrevented, location>>

\* A click on "Go to definition" in the visible popup: the handler assigns
\* window.location.href when a link is active, and the anchor's own href is
\* followed as well; where the two differ either may be the one that loads
GotoClick ==
    /\ Idle
    /\ popupShown
    /\ events < MaxEvents
    /\ events' = events + 1
    /\ location' \in {popupContent.href} \cup
                     (IF activeLink = NoLink THEN {} ELSE {activeLink.href})
    /\ UNCHANGED <<pointerVars, sidenoteVars, pathname, glossary, fetchOutcome, definitions, doc, doc0, pc, passes,
                   fetches, loadFailed, initError, defsAtLoad, popups, popupShown,
                   popupTimer, popupContent, wide, isTouch, listeners, timeout,
                   activeLink, popupStyle, view, defaultPrevented>>

\* The callback of setTimeout in show
TimerFires ==
    /\ Idle
    /\ \E t \in popupTimer : popupTimer' = popupTimer \ {t}
    /\ popupShown' = TRUE
    /\ UNCHANGED <<pointerVars, sidenoteVars, pathname, glossary, fetchOutcome, definitions, doc, doc0, pc, passes,
                   fetches, loadFailed, initError, defsAtLoad, popups, popupContent,
                   wide, isTouch, events, listeners, timeout, activeLink, popupStyle,
                   view, defaultPrevented, location>>

\* The path leads to a node of the tree
RECURSIVE HasPath(_,_)
HasPath(n, path) ==
    \/ path = <<>>
    \/ /\ IsElem(n)
       /\ Head(path) \in DOMAIN n.kids
       /\ HasPath(n.kids[Head(path)], Tail(path))

\* The handlers of the links that are still in the document: the links of
\* a removed wrapper are gone with it
OnPage(ls, d) == [p \in {q \in DOMAIN ls : HasPath(d, q)} |-> ls[p]]

\* The window gets the size of v: when that crosses the threshold, the
\* change callback of DesktopSidenotes runs and then the one of
\* MobileSidenotes, in the order of their matchMedia calls
ResizeTo(v) ==
    /\ view' = v
    /\ wide' = DesktopMatches(v)
    /\ \E sn \in {IF DesktopMatches(v) # DesktopMatches(view)
                  THEN MobileChange(DesktopChange(Notes, v), v)
                  ELSE Notes} : NotesBecome(sn) /\ listeners' = OnPage(listeners, sn.doc)

\* The viewport crosses 1100px
Resize ==
    /\ Idle
    /\ events < MaxEvents
    /\ events' = events + 1
    /\ ResizeTo(IF wide THEN NarrowView ELSE DefaultView)
    /\ UNCHANGED <<pointerVars, mqPending, pathname, glossary, fetchOutcome, definitions, doc0, pc, passes,
                   fetches, loadFailed, initError, defsAtLoad, popups, popupShown,
                   popupTimer, popupContent, isTouch, timeout, activeLink,
                   popupStyle, defaultPrevented, location>>

\* The page scrolls, the pointer moves to another link or the window gets
\* another size: the rectangle the next show reads is another one
Scroll ==
    /\ Idle
    /\ \E v \in Views : v # view /\ ResizeTo(v)
    /\ UNCHANGED <<pointerVars, mqPending, pathname, glossary, fetchOutcome, definitions, doc0, pc, passes,
                   fetches, loadFailed, initError, defsAtLoad, popups, popupShown,
                   popupTimer, popupContent, isTouch, events, timeout,
                   activeLink, popupStyle, defaultPrevented, location>>

\* The sidenote a number label belongs to: its nearest ancestor of that class
SidenoteOf(d, q) ==
    LET above == {i \in 0..(Len(q) - 1) : HasClass(NodeAt(d, SubSeq(q, 1, i)), cSidenote)}
    IN IF above = {} THEN NoPath ELSE SubSeq(q, 1, Max(above))

\* The number labels that can take the focus: they have a tabindex and are
\* not taken out of the rendering
FocusableNumbers(d) ==
    {q \in Range(QueryAllClass(d, cSidenoteNumber)) :
        /\ HasAttr(NodeAt(d, q), aTabindex)
        /\ StyleGet(NodeAt(d, q), pDisplay) # <<"n","o","n","e">>}

\* One event of the sidenotes: the document is what the handlers leave
SidenoteEvent(d, over, focused) ==
    /\ Idle
    /\ events < MaxSidenoteEvents
    /\ events' = events + 1
    /\ doc' = d
    /\ pointerOver' = over
    /\ numberFocused' = focused
    /\ UNCHANGED <<sidenoteVars, pathname, glossary, fetchOutcome, definitions, doc0, pc,
                   passes, fetches, loadFailed, initError, defsAtLoad, popups, popupShown,
                   popupTimer, popupContent, wide, isTouch, listeners, timeout, activeLink,
                   popupStyle, view, defaultPrevented, location>>

\* mouseenter and mouseleave on a sidenote
MouseEnterSidenote(p) ==
    /\ pointerOver = NoPath
    /\ SidenoteEvent(IF HandlerCount(hoverHandlers, p) > 0 THEN showSidenote(doc, p, view) ELSE doc,
                     p, numberFocused)

SidenoteMouseEnter == \E p \in Range(QueryAllClass(doc, cSidenote)) : MouseEnterSidenote(p)

MouseLeaveSidenote(p) ==
    /\ pointerOver = p
    /\ SidenoteEvent(IF HandlerCount(hoverHandlers, p) > 0 THEN hideSidenote(doc, p) ELSE doc,
                     NoPath, numberFocused)

SidenoteMouseLeave == \E p \in Range(QueryAllClass(doc, cSidenote)) : MouseLeaveSidenote(p)

\* The document after the blur event of the number label q, if it has the
\* handlers
AfterBlur(d, q) ==
    IF q # NoPath /\ HandlerCount(focusHandlers, q) > 0
    THEN hideSidenote(d, SidenoteOf(d, q)) ELSE d

AfterFocus(d, q) ==
    IF HandlerCount(focusHandlers, q) > 0
    THEN showSidenote(d, SidenoteOf(d, q), view) ELSE d

\* focus and blur on a number label: the label that had the focus gets its
\* blur event first
FocusNumber(q) ==
    /\ numberFocused # q
    /\ \E d1 \in {AfterBlur(doc, numberFocused)} :
           SidenoteEvent(AfterFocus(d1, q), pointerOver, q)

NumberFocus == \E q \in FocusableNumbers(doc) : FocusNumber(q)

BlurNumber(q) ==
    /\ numberFocused = q
    /\ SidenoteEvent(AfterBlur(doc, q), pointerOver, NoPath)

NumberBlur == \E q \in FocusableNumbers(doc) : BlurNumber(q)

\* A click on, or a keyboard activation of, a toggle button
ClickToggle(t) ==
    SidenoteEvent(IF t \in toggleHandlers THEN toggleClick(doc, t) ELSE doc,
                  pointerOver, numberFocused)

ToggleClick == \E t \in Range(QueryAllClass(doc, cToggle)) : ClickToggle(t)

\* A resize across the threshold, in its two steps: the change callback of
\* DesktopSidenotes, whose media query was created first, ...
ResizeDesktop ==
    /\ Idle
    /\ events < MaxSidenoteEvents
    /\ events' = events + 1
    /\ \E v \in SidenoteViews :
           /\ DesktopMatches(v) # DesktopMatches(view)
           /\ view' = v
           /\ wide' = DesktopMatches(v)
           /\ \E sn \in {DesktopChange(Notes, v)} : NotesBecome(sn)
    /\ mqPending' = TRUE
    /\ UNCHANGED <<pointerVars, pathname, glossary, fetchOutcome, definitions, doc0, pc, passes,
                   fetches, loadFailed, initError, defsAtLoad, popups, popupShown,
                   popupTimer, popupContent, isTouch, listeners, timeout, activeLink,
                   popupStyle, defaultPrevented, location>>

\* ... and the change callback of MobileSidenotes
ResizeMobile ==
    /\ mqPending
    /\ mqPending' = FALSE
    /\ \E sn \in {MobileChange(Notes, view)} :
           NotesBecome(sn) /\ listeners' = OnPage(listeners, sn.doc)
    /\ UNCHANGED <<pointerVars, pathname, glossary, fetchOutcome, definitions, doc0, pc, passes,
                   fetches, loadFailed, initError, defsAtLoad, popups, popupShown,
                   popupTimer, popupContent, wide, isTouch, events, timeout,
                   activeLink, popupStyle, view, defaultPrevented, location>>

\* The page scrolls, the pointer moves to another sidenote or the window
\* gets another size on the same side of the threshold
ScrollSidenotes ==
    /\ Idle
    /\ events < MaxSidenoteEvents
    /\ events' = events + 1
    /\ \E v \in SidenoteViews :
           v # view /\ DesktopMatches(v) = DesktopMatches(view) /\ view' = v
    /\ UNCHANGED <<pointerVars, sidenoteVars, pathname, glossary, fetchOutcome, definitions, doc, doc0, pc,
                   passes, fetches, loadFailed, initError, defsAtLoad, popups, popupShown,
                   popupTimer, popupContent, wide, isTouch, listeners, timeout, activeLink,
                   popupStyle, defaultPrevented, location>>

Next ==
    \/ Start
    \/ FetchSettles
    \/ TextSettles
    \/ ApplyDropcapsStep
    \/ LinkStep
    \/ EnhanceStep
    \/ AttachStep
    \/ MouseEnter
    \/ MouseLeave
    \/ Focus
    \/ Blur
    \/ TimerFires
    \/ Resize

Spec == Init /\ [][Next]_vars

NextAnnotate ==
    \/ LinkStep
    \/ EnhanceStep
    \/ AttachStep
    \/ Relink

InitAnnotate == InitAnnotateFrom(Pages, Glossaries)

SpecAnnotate == InitAnnotate /\ [][NextAnnotate]_vars

\* A sequence back to front
Reversed(s) == [i \in DOMAIN s |-> s[Len(s) + 1 - i]]

\* The glossary with a term inside another term, with its entries in
\* either order
NestedGlossaries == {GlossaryPool[9], Reversed(GlossaryPool[9])}

\* Pages on which the shorter term stands alone, and one on which it
\* stands inside the longer term
NestedPages == {PagePool[1], PagePool[5], PagePool[11], PagePool[12]}

\* The annotation passes with such a glossary
InitNested == InitAnnotateFrom(NestedPages, NestedGlossaries)

SpecNested == InitNested /\ [][NextAnnotate]_vars

\* The state in which init() and AutoEnhance.init have both finished after a
\* glossary load that succeeded, before any event, on the site's front page
InitPopup ==
    /\ pathname = PathPool[1]
    /\ glossary \in PopupGlossaries
    /\ isTouch \in BOOLEAN
    /\ view \in Views
    /\ definitions = StoreEntries(NoDefinitions, glossary)
    /\ defsAtLoad = definitions
    /\ \E page \in PopupPages :
           /\ doc0 = applyDropcaps(page)
           /\ doc = enhanceWritingContent(linkDefinitions(doc0, definitions, pathname))
           /\ listeners = attachDefinitionListeners(
                              AfterDropcaps(attachDefinitionListeners(NoListeners, page),
                                            page, doc0),
                              doc)
    /\ wide = DesktopMatches(view)
    /\ fetchOutcome = "ok"
    /\ pc = "done"
    /\ passes = 1
    /\ fetches = 1
    /\ loadFailed = FALSE
    /\ initError = FALSE
    /\ popups = 1
    /\ popupShown = FALSE
    /\ popupTimer = {}
    /\ timeout = 0
    /\ activeLink = NoLink
    /\ popupStyle = NoStyle
    /\ defaultPrevented = FALSE
    /\ location = NoLocation
    /\ popupContent = NoContent
    /\ hoverHandlers = NoHandlers
    /\ focusHandlers = NoHandlers
    /\ desktopHandlers = {}
    /\ toggleHandlers = {}
    /\ mqPending = FALSE
    /\ pointerOver = NoPath
    /\ numberFocused = NoPath
    /\ events = 0

NextPopup ==
    \/ MouseEnter
    \/ MouseLeave
    \/ Focus
    \/ Blur
    \/ ClickLink
    \/ CloseClick
    \/ TouchOutside
    \/ GotoClick
    \/ TimerFires
    \/ Scroll

SpecPopup == InitPopup /\ [][NextPopup]_vars

\* The loaded page with sidenotes, before init() runs, for a glossary of one
\* term and a mouse
InitSidenotes ==
    /\ pathname = PathPool[1]
    /\ glossary = GlossaryPool[2]
    /\ doc \in SidenotePages
    /\ doc0 = doc
    /\ isTouch = FALSE
    /\ view \in SidenoteViews
    /\ wide = DesktopMatches(view)
    /\ definitions = NoDefinitions
    /\ defsAtLoad = <<>>
    /\ fetchOutcome = "none"
    /\ pc = "start"
    /\ passes = 0
    /\ fetches = 0
    /\ loadFailed = FALSE
    /\ initError = FALSE
    /\ popups = 0
    /\ popupShown = FALSE
    /\ popupTimer = {}
    /\ timeout = 0
    /\ activeLink = NoLink
    /\ popupStyle = NoStyle
    /\ defaultPrevented = FALSE
    /\ location = NoLocation
    /\ popupContent = NoContent
    /\ hoverHandlers = NoHandlers
    /\ focusHandlers = NoHandlers
    /\ desktopHandlers = {}
    /\ toggleHandlers = {}
    /\ mqPending = FALSE
    /\ pointerOver = NoPath
    /\ numberFocused = NoPath
    /\ listeners = NoListeners
    /\ events = 0

NextSidenotes ==
    \/ Start
    \/ FetchSettles
    \/ TextSettles
    \/ ApplyDropcapsStep
    \/ LinkStep
    \/ EnhanceStep
    \/ AttachStep
    \/ SidenoteMouseEnter
    \/ SidenoteMouseLeave
    \/ NumberFocus
    \/ NumberBlur
    \/ ToggleClick
    \/ ResizeDesktop
    \/ ResizeMobile
    \/ ScrollSidenotes

SpecSidenotes == InitSidenotes /\ [][NextSidenotes]_vars

----------------------------------------------------------------------------
(* Dropcaps: the lead paragraphs the formatter is run on                   *)

tStrong == <<"s","t","r","o","n","g">>
aTitle == <<"t","i","t","l","e">>

\* What follows the first word of a lead paragraph: enough text for the
\* paragraph to have 50 characters, or not
DropcapTails ==
    { <<"e","l","l","o"," ","w","o","r","l","d",","," ","t","h","i","s"," ","i","s"," ","a"," ","l","o","n","g"," ","e","n","o","u","g","h"," ","p","a","r","a","g","r","a","p","h"," ","t","o"," ","q","u","a","l","i","f","y"," ","h","e","r","e">>,
      <<"e","l","l","o"," ","w","o","r","l","d">> }

\* The whitespace a lead paragraph's markup starts with
DropcapSpaces == { <<>>, <<"\n"," ">> }

\* The children of a paragraph: whitespace, if any, in a text node of its own
\* in front of the elements
AfterSpace(ws, kids) == IF ws = <<>> THEN kids ELSE <<Text(ws)>> \o kids

\* The starts of a lead paragraph:
\*   1  a letter
\*   2  an emphasised word
\*   3  an emphasised word inside a strong element
\*   4  a link whose title holds a greater-than sign
\*   5  a digit
\*   6  a quotation mark
\*   7  a quotation mark inside an emphasis
\*   8  an empty element, then a letter
\*   9  a less-than sign
\*  10  a letter outside A-Z
\*  11  a dropcap of the author's
\*  12  a space inside an emphasis
DropcapLead(v, ws, t) ==
    CASE v = 1  -> <<Text(ws \o <<"H">> \o t)>>
      [] v = 2  -> AfterSpace(ws, <<Elem(tEm, <<>>, <<Text(<<"H","e","l","l","o">>)>>), Text(<<" ","w">> \o t)>>)
      [] v = 3  -> AfterSpace(ws, <<Elem(tStrong, <<>>, <<Elem(tEm, <<>>, <<Text(<<"H">> \o t)>>)>>)>>)
      [] v = 4  -> AfterSpace(ws, <<Elem(tA, <<Attr(aHref, <<"x",".","h","t","m","l">>), Attr(aTitle, <<"a",">","b">>)>>,
                                         <<Text(<<"H","e","l","l","o">>)>>),
                                    Text(<<" ","w">> \o t)>>)
      [] v = 5  -> <<Text(ws \o <<"1","9","8","4"," ","h">> \o t)>>
      [] v = 6  -> <<Text(ws \o <<"\"","H">> \o t)>>
      [] v = 7  -> AfterSpace(ws, <<Elem(tEm, <<>>, <<Text(<<"\"","H","e","l","l","o","\"">>)>>), Text(<<" ","w">> \o t)>>)
      [] v = 8  -> AfterSpace(ws, <<Elem(tEm, <<>>, <<>>), Text(<<"H">> \o t)>>)
      [] v = 9  -> <<Text(ws \o <<"<","3"," ","h">> \o t)>>
      [] v = 10 -> <<Text(ws \o <<"É","h">> \o t)>>
      [] v = 11 -> AfterSpace(ws, <<Elem(tSpan, <<Attr(aClass, cDropcap)>>, <<Text(<<"H">>)>>), Text(t)>>)
      [] OTHER  -> AfterSpace(ws, <<Elem(tEm, <<>>, <<Text(<<" ","H","e","l","l","o">>)>>), Text(<<" ","w">> \o t)>>)

\* The places of a lead paragraph p:
\*   1  section#introduction      2  section#intro
\*   3  .writing-content          4  the first section of an article, with a
\*                                   second paragraph after it
\*   5  a section that three of the selectors match
\*   6  a place that no selector matches
DropcapPlace(c, p) ==
    CASE c = 1 -> Elem(tBody, <<>>, <<Elem(tSection, <<Attr(aId, <<"i","n","t","r","o","d","u","c","t","i","o","n">>)>>, <<p>>)>>)
      [] c = 2 -> Elem(tBody, <<>>, <<Elem(tSection, <<Attr(aId, <<"i","n","t","r","o">>)>>, <<p>>)>>)
      [] c = 3 -> Elem(tBody, <<>>, <<Elem(tDiv, <<Attr(aClass, cWritingContent)>>, <<p>>)>>)
      [] c = 4 -> Elem(tBody, <<>>,
                       <<Elem(tArticle, <<>>,
                              <<Elem(tSection, <<>>,
                                     <<p, Elem(tP, <<>>, <<Text(<<"A","n","d"," ","t","h","e","n"," ","t","h","e"," ","s","e","c","o","n","d"," ","p","a","r","a","g","r","a","p","h",","," ","w","h","i","c","h"," ","i","s"," ","a","s"," ","l","o","n","g"," ","a","s"," ","t","h","e"," ","f","i","r","s","t"," ","o","n","e">>)>>)>>)>>)>>)
      [] c = 5 -> Elem(tBody, <<>>,
                       <<Elem(tArticle, <<>>,
                              <<Elem(tSection, <<Attr(aId, <<"i","n","t","r","o">>), Attr(aClass, cWritingContent)>>,
                                     <<p>>)>>)>>)
      [] OTHER -> Elem(tBody, <<>>, <<Elem(tDiv, <<>>, <<p>>)>>)

MaxDropcapLead == 12
MaxDropcapPlace == 6
MaxDropcapCalls == 2

DropcapPages ==
    {DropcapPlace(c, Elem(tP, <<>>, DropcapLead(v, ws, t))) :
        c \in 1..MaxDropcapPlace, v \in 1..MaxDropcapLead,
        ws \in DropcapSpaces, t \in DropcapTails}

\* window.WikiEnhance.AutoEnhance.applyDropcaps(), called by another script
ApplyDropcapsCall ==
    /\ Idle
    /\ events < MaxDropcapCalls
    /\ events' = events + 1
    /\ \E d2 \in {applyDropcaps(doc)} :
           \E sn \in {SidenotesAfterDropcaps(Notes, d2)} : NotesBecome(sn)
    /\ listeners' = AfterDropcaps(listeners, doc, doc')
    /\ activeLink' = ActiveAfterDropcaps(activeLink, listeners, listeners')
    /\ pointerOver' = PointerAfterDropcaps(pointerOver, doc, doc')
    /\ numberFocused' = PointerAfterDropcaps(numberFocused, doc, doc')
    /\ UNCHANGED <<mqPending, pathname, glossary, fetchOutcome, definitions, doc0, pc, passes,
                   fetches, loadFailed, initError, defsAtLoad, popups, popupShown,
                   popupTimer, popupContent, wide, isTouch,
                   timeout, popupStyle, view, defaultPrevented, location>>

\* The state in which the continuation of AutoEnhance.init reaches
\* applyDropcaps: the glossary has loaded without an entry and no event has
\* come in, on a wide viewport without touch input and without sidenotes
InitDropcaps ==
    /\ pathname = PathPool[1]
    /\ glossary = GlossaryPool[1]
    /\ doc \in DropcapPages
    /\ doc0 = doc
    /\ listeners = NoListeners
    /\ isTouch = FALSE
    /\ wide = TRUE
    /\ definitions = NoDefinitions
    /\ defsAtLoad = definitions
    /\ fetchOutcome = "ok"
    /\ pc = "loaded"
    /\ passes = 0
    /\ fetches = 1
    /\ loadFailed = FALSE
    /\ initError = FALSE
    /\ popups = 1
    /\ popupShown = FALSE
    /\ popupTimer = {}
    /\ timeout = 0
    /\ activeLink = NoLink
    /\ popupStyle = NoStyle
    /\ view = DefaultView
    /\ defaultPrevented = FALSE
    /\ location = NoLocation
    /\ popupContent = NoContent
    /\ hoverHandlers = NoHandlers
    /\ focusHandlers = NoHandlers
    /\ desktopHandlers = {}
    /\ toggleHandlers = {}
    /\ mqPending = FALSE
    /\ pointerOver = NoPath
    /\ numberFocused = NoPath
    /\ events = 0

NextDropcaps ==
    \/ ApplyDropcapsStep
    \/ LinkStep
    \/ EnhanceStep
    \/ AttachStep
    \/ ApplyDropcapsCall

SpecDropcaps == InitDropcaps /\ [][NextDropcaps]_vars

\* Definition bodies of every length up to MaxBody, bare and with white
\* space around them as the markup of a glossary page has it
Filler(n) == [i \in 1..n |-> LowerLetters[(i % 26) + 1]]

Bodies ==
    {Filler(n) : n \in 0..MaxBody}
    \cup {<<"\n", " ">> \o Filler(n) \o <<" ">> : n \in 0..MaxBody}

\* The state in which the glossary response has arrived and its text is
\* awaited, for a glossary of one entry
InitLoad ==
    /\ pathname = PathPool[1]
    /\ \E body \in Bodies :
           glossary = <<[hasTerm |-> TRUE, term |-> <<"G","r","a","c","e">>,
                         hasContent |-> TRUE, body |-> body,
                         id |-> <<"g","r","a","c","e">>]>>
    /\ doc = PagePool[1]
    /\ doc0 = doc
    /\ listeners = attachDefinitionListeners(NoListeners, doc)
    /\ isTouch = FALSE
    /\ wide = TRUE
    /\ view = DefaultView
    /\ definitions = NoDefinitions
    /\ defsAtLoad = <<>>
    /\ fetchOutcome = "none"
    /\ pc = "reading"
    /\ passes = 0
    /\ fetches = 1
    /\ loadFailed = FALSE
    /\ initError = FALSE
    /\ popups = 1
    /\ popupShown = FALSE
    /\ popupTimer = {}
    /\ timeout = 0
    /\ activeLink = NoLink
    /\ popupStyle = NoStyle
    /\ defaultPrevented = FALSE
    /\ location = NoLocation
    /\ popupContent = NoContent
    /\ hoverHandlers = NoHandlers
    /\ focusHandlers = NoHandlers
    /\ desktopHandlers = {}
    /\ toggleHandlers = {}
    /\ mqPending = FALSE
    /\ pointerOver = NoPath
    /\ numberFocused = NoPath
    /\ events = 0

NextLoad == TextSettles

SpecLoad == InitLoad /\ [][NextLoad]_vars

----------------------------------------------------------------------------
(* What an annotation pass did, read off the trees before and after it     *)

\* The latest change of the document is an annotation pass: doc0 is the
\* tree before it and doc the tree after it
AfterPass == passes >= 1 /\ (pc = "linked" \/ passes >= 2)

ProperPrefixes(p) == SelfAndAncestors(p) \ {p}

TextPaths(d) == {q \in Range(AllPaths(d)) : IsText(NodeAt(d, q))}

\* The elements the pass created: they stand where doc0 has a text node
CreatedElements ==
    {p \in Range(AllPaths(doc)) :
        IsElem(NodeAt(doc, p)) /\ \E q \in SelfAndAncestors(p) : q \in TextPaths(doc0)}

CreatedLinks == {p \in CreatedElements : NodeAt(doc, p).tag = tA}

\* The text node of doc0 in whose place a created element stands
Origin(p) == CHOOSE q \in SelfAndAncestors(p) : q \in TextPaths(doc0)

\* The text nodes of doc0 that the pass replaced
Rewritten == {q \in TextPaths(doc0) : NodeAt(doc, q) # NodeAt(doc0, q)}

OnDefinitionsPage == includes(pathname, <<"d","e","f","i","n","i","t","i","o","n","s",".","h","t","m","l">>)

\* The text nodes of doc0 the pass has to look at: below a content root
\* that is not inside an anchor or a heading, with no anchor and no
\* definition link above them
EligibleTexts ==
    IF OnDefinitionsPage \/ Len(definitions) = 0 THEN {}
    ELSE {q \in TextPaths(doc0) :
             /\ \E el \in SelfAndAncestors(q) :
                    /\ MatchesContentSelector(doc0, el)
                    /\ ~Closest(doc0, el, IsAnchor)
                    /\ ~Closest(doc0, el, IsHeading)
             /\ ~Closest(doc0, Parent(q), IsAnchorOrDefinitionLink)}

\* The positions at which term stands in s as a whole word, letter for
\* letter: spelled out without a regular expression
OccStarts(term, s) ==
    {i \in 1..(Len(s) + 1) :
        /\ StartsWithAt(s, i, term)
        /\ IsWordAt(s, i - 1) # IsWordAt(s, i)
        /\ IsWordAt(s, i + Len(term) - 1) # IsWordAt(s, i + Len(term))}

\* The whole markup that stands for one occurrence of a term
Markup(def) == LinkOpen(DefinitionsPath(pathname), def) \o def.term \o LinkClose

HoldsNoneOf(s, chars) == \A i \in DOMAIN s : s[i] \notin chars

\* A match of length m at i and a match of length n at j share a character,
\* or the empty one of them lies inside the other
Overlap(i, m, j, n) ==
    \/ i < j + n /\ j < i + m
    \/ m = 0 /\ j < i /\ i < j + n
    \/ n = 0 /\ i < j /\ j < i + m

\* The text s and the registry are plain: no markup character in the text,
\* in a term or in an anchor id, no empty term, no two occurrences in s that
\* overlap, and no later term that stands in the markup of an earlier term
\* that occurs
Plain(s) ==
    /\ HoldsNoneOf(s, {"<", ">", "&"})
    /\ \A k \in DOMAIN definitions :
           /\ definitions[k].term # <<>>
           /\ HoldsNoneOf(definitions[k].term, {"<", ">", "&", "\""})
           /\ HoldsNoneOf(definitions[k].slug, {"<", ">", "&", "\""})
    /\ \A k, l \in DOMAIN definitions :
           \A i \in OccStarts(definitions[k].term, s), j \in OccStarts(definitions[l].term, s) :
               (k # l \/ i # j)
               => ~Overlap(i, Len(definitions[k].term), j, Len(definitions[l].term))
    /\ \A k, l \in DOMAIN definitions :
           (k < l /\ OccStarts(definitions[k].term, s) # {})
           => OccStarts(definitions[l].term, Markup(definitions[k])) = {}

\* The created links that stand in the place of the text node q
LinksAt(q) == {p \in CreatedLinks : IsPrefix(q, p)}

\* All occurrences of all terms in s, as pairs of term index and position
Occurrences(s) ==
    {<<k, i>> \in (DOMAIN definitions) \X (1..(Len(s) + 1)) : i \in OccStarts(definitions[k].term, s)}

\* The elements a pass may not enter, as the specification lists them
Excluded(n) ==
    /\ IsElem(n)
    /\ \/ n.tag \in {tA, tH1, tH2, tH3, tH4, tCode, tPre, tScript}
       \/ HasClass(n, cDefinitionLink)

----------------------------------------------------------------------------
(* The annotation pass                                                     *)

\* C1: a second annotation pass on the result of a first pass changes
\* nothing, so that the links are the same as after one pass, and no created
\* link stands inside another link.
C1_SecondPassChangesNothing ==
    /\ passes >= 2 => doc = doc0
    /\ AfterPass => \A p \in CreatedLinks : \A r \in ProperPrefixes(p) : ~IsAnchor(NodeAt(doc, r))

\* C2: after a pass no created link stands inside an anchor, a heading of
\* level 1 to 4, a code, pre or script element or an element with the class
\* definition-link, however deep below a content root that element is.
C2_NoLinkInExcludedElement ==
    AfterPass => \A p \in CreatedLinks : \A r \in ProperPrefixes(p) : ~Excluded(NodeAt(doc, r))

\* C3: a pass keeps the text: what stands in the place of a rewritten text
\* node has the text of that node, character for character; the only
\* elements it holds are the wrapper and links; and every element that was
\* there before keeps its tag, its attributes and its number of children.
C3_TextPreserved ==
    AfterPass =>
        /\ \A q \in Rewritten : TextContent(NodeAt(doc, q)) = NodeAt(doc0, q).s
        /\ \A p \in CreatedElements : NodeAt(doc, p).tag \in {tSpan, tA}
        /\ \A r \in Range(AllPaths(doc0)) :
               IsElem(NodeAt(doc0, r)) =>
                   /\ NodeAt(doc, r).tag = NodeAt(doc0, r).tag
                   /\ NodeAt(doc, r).attrs = NodeAt(doc0, r).attrs
                   /\ Len(NodeAt(doc, r).kids) = Len(NodeAt(doc0, r).kids)

C5_LinkedOnlyWhereTermOccurs ==
    AfterPass =>
        \A p \in CreatedLinks :
            \E k \in DOMAIN definitions :
                /\ definitions[k].term = TextContent(NodeAt(doc, p))
                /\ OccStarts(definitions[k].term, NodeAt(doc0, Origin(p)).s) # {}

\* C6: every created link carries the data of the term that is its text:
\* that term's display name, its preview and the glossary path with "#" and
\* its anchor id.
C6_LinkCarriesItsTerm ==
    AfterPass =>
        \A p \in CreatedLinks :
            \E k \in DOMAIN definitions :
                /\ definitions[k].term = TextContent(NodeAt(doc, p))
                /\ GetAttr(NodeAt(doc, p), aDataTerm) = definitions[k].term
                /\ GetAttr(NodeAt(doc, p), aDataDefinition) = definitions[k].preview
                /\ GetAttr(NodeAt(doc, p), aHref)
                       = DefinitionsPath(pathname) \o <<"#">> \o definitions[k].slug

\* C7: with an empty registry, or with no content root on the page, the
\* pass leaves the document as it was.
C7_NoOpWithoutRegistryOrRoot ==
    (AfterPass /\ (Len(definitions) = 0
                   \/ \A p \in Range(AllPaths(doc0)) : ~MatchesContentSelector(doc0, p)))
        => doc = doc0

\* A pass has run with a registry on a page that has no content root but
\* has the text of a registered term
C7_Witness ==
    /\ AfterPass
    /\ Len(definitions) > 0
    /\ ~OnDefinitionsPage
    /\ \A p \in Range(AllPaths(doc0)) : ~MatchesContentSelector(doc0, p)
    /\ \E q \in TextPaths(doc0) : Occurrences(NodeAt(doc0, q).s) # {}

----------------------------------------------------------------------------
(* The registry                                                            *)

\* C8: after a failed load the registry is empty in every later state, one
\* request has been issued and no more, no error has left init, init is at
\* one of the positions that lead to its end (each has a next step that
\* waits for nothing), and its pass leaves the document as it was.
C8_FailedLoadIsSilent ==
    loadFailed =>
        /\ definitions = <<>>
        /\ fetches = 1
        /\ ~initError
        /\ pc \in {"loaded", "dropcapped", "linked", "enhanced", "done"}
        /\ pc = "linked" => doc = doc0

\* init has come to its end after a failed load, and a user event has
\* been handled
C8_Witness == loadFailed /\ pc = "done" /\ passes = 1 /\ events > 0

\* C9: the registry is empty until the load has ended, and from then on it
\* is what it was when the load ended; at most one request is issued.
C9_RegistryWrittenOnce ==
    /\ pc \in {"start", "fetching", "reading"} => definitions = <<>>
    /\ pc \notin {"start", "fetching", "reading"} => definitions = defsAtLoad
    /\ fetches <= 1

\* A loaded registry after the pass of init, a resize and a popup that shows
C9_Witness ==
    /\ pc = "done"
    /\ Len(definitions) > 0
    /\ events = MaxEvents
    /\ popupShown

\* An entry of the glossary document with a term name, an anchor id and a
\* definition body
WellFormed(entry) ==
    /\ entry.hasTerm
    /\ trim(entry.term) # <<>>
    /\ entry.hasContent
    /\ entry.id # <<>>

BodyText == trim(glossary[1].body)

\* C11: when the load has stored the entry, a body of more than 150
\* characters has a preview of exactly 150 characters, the first 147 of the
\* body and three dots; a body of at most 150 characters is its own preview;
\* so no preview is longer than 150 characters.
C11_PreviewTruncated ==
    (pc = "loaded" /\ ~loadFailed) =>
        /\ Len(definitions) = 1
        /\ LET preview == definitions[1].preview IN
           /\ Len(BodyText) > 150 =>
                  /\ Len(preview) = 150
                  /\ SubSeq(preview, 1, 147) = SubSeq(BodyText, 1, 147)
                  /\ SubSeq(preview, 148, 150) = <<".", ".", ".">>
           /\ Len(BodyText) <= 150 => preview = BodyText
           /\ Len(preview) <= 150

C11_Witness ==
    /\ pc = "loaded"
    /\ ~loadFailed
    /\ Len(BodyText) = 151
    /\ Len(glossary[1].body) > Len(BodyText)
    /\ Len(definitions[1].preview) = 150

\* The definition links the annotation pass of init created
CreatedDefinitionLinks == {p \in CreatedLinks : IsDefinitionLink(NodeAt(doc, p))}

\* C12: handlers exist only once the one popup element exists; while
\* AutoEnhance.init is between the annotation pass and its last statement no
\* created link has handlers yet; and when init is done every definition
\* link the pass created has its handlers, attached once.
C12_ListenersAfterAnnotation ==
    /\ DOMAIN listeners # {} => popups = 1
    /\ pc \in {"linked", "enhanced"} =>
           \A p \in CreatedLinks : p \notin DOMAIN listeners
    /\ pc = "done" =>
           /\ popups = 1
           /\ \A p \in CreatedDefinitionLinks : p \in DOMAIN listeners /\ listeners[p] = 1

C12_Witness ==
    /\ pc = "done"
    /\ events > 0
    /\ CreatedDefinitionLinks # {}
    /\ \E p \in DOMAIN listeners : listeners[p] = 2
    /\ \A p \in CreatedDefinitionLinks : listeners[p] = 1

\* The events that ask for the popup to be hidden, and those that ask for it
\* to be shown
HideTrigger == (~isTouch /\ MouseLeave) \/ Blur \/ CloseClick \/ TouchOutside
ShowTrigger == (~isTouch /\ MouseEnter) \/ Focus \/ (isTouch /\ ClickLink)

\* C13: a hide trigger leaves the popup not visible and no show timer
\* pending; a popup that is not visible becomes visible only when a show
\* timer fires, and a show timer comes to be pending only by a show trigger.
\* So after a hide trigger the popup stays hidden until the next show
\* trigger, and a pointer that leaves before the delay is over shows nothing.
C13_HideTriggerHides ==
    [][/\ HideTrigger => (~popupShown' /\ popupTimer' = {})
       /\ (~popupShown /\ popupShown') => popupTimer # {}
       /\ (popupTimer = {} /\ popupTimer' # {}) => ShowTrigger]_vars

\* Every link that has handlers carries a term and a definition
AllLinksHaveData ==
    \A p \in DOMAIN listeners :
        /\ GetAttr(NodeAt(doc, p), aDataTerm) # <<>>
        /\ GetAttr(NodeAt(doc, p), aDataDefinition) # <<>>

\* A pointer has entered a link and left it before the timer fired
C13_Witness ==
    /\ ~isTouch
    /\ AllLinksHaveData
    /\ events = 2
    /\ timeout # 0
    /\ popupContent # NoContent
    /\ ~popupShown
    /\ popupTimer = {}

\* C14: at most one show timer is pending, and it is the one LinkPopup.timeout
\* names, the latest started: a timer started by an earlier show is cancelled
\* by the next show or hide and cannot fire after it.
C14_OneTimerPending ==
    /\ Cardinality(popupTimer) <= 1
    /\ popupTimer \subseteq {timeout}

\* Two show triggers, the second while the timer of the first was pending
C14_Witness ==
    /\ events = 2
    /\ ~popupShown
    /\ timeout >= 2
    /\ popupTimer = {timeout}

\* A tap on this link is a first tap: the link is not the active anchor of
\* a visible popup
FirstTap(link) == ~(popupShown /\ activeLink.path = link)

\* C15: on a touch device a first tap on a link that has handlers suppresses
\* the navigation and starts the popup for that link: the show timer is
\* pending (or the popup is visible already) and the popup holds the link's
\* term and definition.
C15_FirstTapOpensPopup ==
    [][\A link \in DOMAIN listeners :
          (isTouch /\ FirstTap(link) /\ Click(link)) =>
              /\ defaultPrevented'
              /\ location' = NoLocation
              /\ popupTimer' # {} \/ popupShown'
              /\ popupContent'.title = GetAttr(NodeAt(doc, link), aDataTerm)
              /\ popupContent'.excerpt = GetAttr(NodeAt(doc, link), aDataDefinition)]_vars

DataOf(link) ==
    [title |-> GetAttr(NodeAt(doc, link), aDataTerm),
     excerpt |-> GetAttr(NodeAt(doc, link), aDataDefinition),
     href |-> GetAttr(NodeAt(doc, link), aHref)]

HasData(link) == DataOf(link).title # <<>> /\ DataOf(link).excerpt # <<>>

\* C17: there is never more than one popup element; a show trigger on a link
\* that carries term data makes title, excerpt and destination of the popup
\* those of that link; nothing else changes them; and a visible popup holds
\* such data.
C17_OnePopupWithLatestData ==
    [][/\ popups' <= 1
       /\ \A link \in DOMAIN listeners :
              (HasData(link) /\ ((~isTouch /\ MouseEnterOn(link)) \/ FocusOn(link)))
                  => popupContent' = DataOf(link)
       /\ popupContent' # popupContent =>
              \E link \in DOMAIN listeners :
                  /\ HasData(link)
                  /\ (~isTouch /\ MouseEnterOn(link)) \/ FocusOn(link)
       /\ popupShown' => popupContent' # NoContent]_vars

\* After init has attached the handlers a second time, the one popup shows
\* the data of the second of two links that were shown
C17_Witness ==
    /\ pc = "done"
    /\ popups = 1
    /\ popupShown
    /\ events = 2
    /\ timeout >= 2
    /\ \E l1, l2 \in DOMAIN listeners :
           /\ HasData(l1)
           /\ HasData(l2)
           /\ DataOf(l1) # DataOf(l2)
           /\ listeners[l1] = 1
           /\ popupContent = DataOf(l1)

\* A show trigger on a link: pointer-enter or focus, or a first tap
ShowOn(link) ==
    \/ ~isTouch /\ MouseEnterOn(link)
    \/ FocusOn(link)
    \/ isTouch /\ FirstTap(link) /\ Click(link)

\* The room below and above the link at the time of the trigger, and where
\* the popup's new top puts it (document coordinates)
SpaceBelow == view.innerHeight - view.bottom
SpaceAbove == view.top
PlacedAbove == popupStyle'[1] + popupHeight(isTouch) <= view.top + view.scrollY
PlacedBelow == popupStyle'[1] >= view.bottom + view.scrollY

\* C18 as stated: on every show the popup is placed from the link's current
\* rectangle, above the link if the room below is less than the popup's
\* height and below it otherwise.
C18_AboveIffNoRoomBelow ==
    [][\A link \in DOMAIN listeners :
          (HasData(link) /\ ShowOn(link)) =>
              IF SpaceBelow < popupHeight(isTouch) THEN PlacedAbove ELSE PlacedBelow]_vars

\* C18 as amended: the popup is placed above the link if the room below is
\* less than the popup's assumed height (160 with touch, 120 without) and
\* also less than the room above, and below the link otherwise; from the
\* link's current rectangle on every show.
C18_AboveIffLessRoomBelow ==
    [][\A link \in DOMAIN listeners :
          (HasData(link) /\ ShowOn(link)) =>
              IF SpaceBelow < popupHeight(isTouch) /\ SpaceBelow < SpaceAbove
              THEN PlacedAbove /\ ~PlacedBelow
              ELSE PlacedBelow /\ ~PlacedAbove]_vars

\* The popup was shown a second time, for a rectangle with less room below
\* than above, and stands above it
C18_Witness ==
    /\ events = 2
    /\ timeout >= 2
    /\ popupTimer # {}
    /\ popupStyle # NoStyle
    /\ view.innerHeight - view.bottom < popupHeight(isTouch)
    /\ view.innerHeight - view.bottom < view.top
    /\ popupStyle[1] + popupHeight(isTouch) <= view.top + view.scrollY

\* C19: on every show, with touch and without, the computed left is at
\* least 16 and the popup's right edge, left plus the popup's width, is at
\* most the viewport's width minus 16.
C19_WithinViewportWidth ==
    [][\A link \in DOMAIN listeners :
          (HasData(link) /\ ShowOn(link)) =>
              /\ popupStyle'[2] >= 16
              /\ popupStyle'[2] + PopupWidth(isTouch, view) <= view.innerWidth - 16]_vars

\* The link's rectangle lies inside the viewport
RectInViewport == 0 <= view.top /\ view.top <= view.bottom /\ view.bottom <= view.innerHeight

\* C20: on every show for a link inside the viewport, the popup's vertical
\* extent, from its top to its top plus its height, lies between the top and
\* the bottom of the visible viewport.
C20_WithinViewportHeight ==
    [][\A link \in DOMAIN listeners :
          (HasData(link) /\ ShowOn(link) /\ RectInViewport) =>
              /\ popupStyle'[1] - view.scrollY >= 0
              /\ popupStyle'[1] - view.scrollY + popupHeight(isTouch) <= view.innerHeight]_vars

----------------------------------------------------------------------------
(* Sidenotes: what a state shows of the two layout modes                   *)

SidenotePaths == Range(QueryAllClass(doc, cSidenote))

\* The content block and the number label of a sidenote, NoPath if missing
ContentOf(p) == QueryClass(doc, p, cSidenoteContent)
NumberOf(p) == QueryClass(doc, p, cSidenoteNumber)

\* The sidenotes the two modules work on: those with a content block
LaidOut == {p \in SidenotePaths : ContentOf(p) # NoPath}

IsConverted(p) == HasClass(NodeAt(doc, p), cConverted)

\* Show/hide handlers of the desktop setup on the sidenote or on its label
HoverHandlersOn(p) == HandlerCount(hoverHandlers, p)
FocusHandlersOn(p) == IF NumberOf(p) = NoPath THEN 0 ELSE HandlerCount(focusHandlers, NumberOf(p))
HasDesktopHandlers(p) == HoverHandlersOn(p) > 0 \/ FocusHandlersOn(p) > 0

\* init() has run and no media-query callback is outstanding
Settled == pc # "start" /\ ~mqPending

\* C21: in every reachable state, the states between the two media-query
\* callbacks of one resize included, no sidenote that is converted to the
\* mobile inline toggle has hover or focus handlers of the desktop setup;
\* and once the callbacks have run, a sidenote is converted exactly when the
\* viewport is at most 1100 wide.
C21_ModesMutuallyExclusive ==
    /\ \A p \in SidenotePaths : ~(IsConverted(p) /\ HasDesktopHandlers(p))
    /\ Settled => \A p \in LaidOut : IsConverted(p) <=> MobileMatches(view)

\* C22: whenever the callbacks have run and the viewport is at least 1101
\* wide, whatever conversions to mobile inline and back went before, the
\* document holds no toggle control and no mobile wrapper, no sidenote has the
\* converted marker, and the number label and the content block of every
\* sidenote have the display of the page's markup again (none set inline).
C22_RevertRestores ==
    (Settled /\ DesktopMatches(view)) =>
        /\ QueryAllClass(doc, cWrapper) = <<>>
        /\ QueryAllClass(doc, cToggle) = <<>>
        /\ QueryAllClass(doc, cConverted) = <<>>
        /\ \A p \in SidenotePaths :
               /\ NumberOf(p) # NoPath => StyleGet(NodeAt(doc, NumberOf(p)), pDisplay) = <<>>
               /\ ContentOf(p) # NoPath => StyleGet(NodeAt(doc, ContentOf(p)), pDisplay) = <<>>

\* A sidenote that was converted and reverted: the display of its parts was
\* set and cleared again, which leaves them an empty style attribute
C22_Witness ==
    /\ Settled
    /\ DesktopMatches(view)
    /\ \E p \in LaidOut :
           /\ NumberOf(p) # NoPath
           /\ HasAttr(NodeAt(doc, NumberOf(p)), aStyle)
           /\ HasAttr(NodeAt(doc, ContentOf(p)), aStyle)
           /\ HasDesktopHandlers(p)

IsVisible(p) == ContentOf(p) # NoPath /\ HasClass(NodeAt(doc, ContentOf(p)), cVisible)

\* C23: once the callbacks have run, at a width of at most 1100 no sidenote
\* and no number label has a show/hide handler of the desktop setup and no
\* content block is marked visible; and at a width of at least 1101, after
\* any number of round trips, every sidenote with a content block has
\* exactly one pair of mouseenter/mouseleave handlers and its number label
\* exactly one pair of focus/blur handlers.
C23_TeardownRemovesSetup ==
    Settled =>
        /\ MobileMatches(view) =>
               \A p \in SidenotePaths : ~HasDesktopHandlers(p) /\ ~IsVisible(p)
        /\ DesktopMatches(view) =>
               \A p \in LaidOut :
                   /\ HoverHandlersOn(p) = 1
                   /\ NumberOf(p) # NoPath => FocusHandlersOn(p) = 1

\* The number a string of digits spells, and the pixels of a style value
RECURSIVE ParseNumber(_)
ParseNumber(s) ==
    IF s = <<>> THEN 0
    ELSE 10 * ParseNumber(SubSeq(s, 1, Len(s) - 1))
         + (CHOOSE n \in 0..9 : Digits[n + 1] = s[Len(s)])

Pixels(value) == ParseNumber(SubSeq(value, 1, Len(value) - 2))

\* The event of this step activates the sidenote p: the pointer enters it or
\* its number label gets the focus, and the handler of the desktop setup is
\* there to run
Activates(p) ==
    \/ HoverHandlersOn(p) > 0 /\ MouseEnterSidenote(p)
    \/ /\ NumberOf(p) \in FocusableNumbers(doc)
       /\ FocusHandlersOn(p) > 0
       /\ FocusNumber(NumberOf(p))

\* style.left and style.top of the content block of p after this step
LeftAfter(p) == StyleGet(NodeAt(doc', ContentOf(p)), pLeft)
TopAfter(p) == StyleGet(NodeAt(doc', ContentOf(p)), pTop)

\* C24: every activation of a sidenote that positions its content block
\* leaves the block's right edge, its left offset plus the sidenote width of
\* 240, at or before the viewport's right edge minus the margin of 16.
C24_RightEdgeInsideViewport ==
    [][\A p \in LaidOut :
          (Activates(p) /\ LeftAfter(p) # <<>>) =>
              Pixels(LeftAfter(p)) + SidenoteWidth <= view.innerWidth - SidenoteMargin]_vars

\* A visible content block in a window whose content column leaves no room
\* beside it, placed by the clamp
C24_Witness ==
    \E p \in LaidOut :
        /\ IsVisible(p)
        /\ view.contentRight + SidenoteGap + SidenoteWidth > view.innerWidth - SidenoteMargin
        /\ StyleGet(NodeAt(doc, ContentOf(p)), pLeft)
               = Px(view.innerWidth - SidenoteWidth - SidenoteMargin)

\* Beside the content column there is no room for the block
NoRoomBeside(v) == v.contentRight + SidenoteGap + SidenoteWidth > v.innerWidth - SidenoteMargin

VisibleAfter(p) == HasClass(NodeAt(doc', ContentOf(p)), cVisible)

PointsAt(p) ==
    \/ MouseEnterSidenote(p)
    \/ NumberOf(p) \in FocusableNumbers(doc) /\ FocusNumber(NumberOf(p))

\* C26: at a width of at least 1101, every hover over a sidenote and every
\* focus of its number label leaves its content block visible with a top
\* equal to the top of the sidenote in the viewport, wherever that is.
C26_ActivationShowsAtReferenceTop ==
    [][\A p \in LaidOut :
          (DesktopMatches(view) /\ PointsAt(p)) =>
              VisibleAfter(p) /\ TopAfter(p) = Px(view.top)]_vars

\* The top that positionSidenote last wrote on the content block of p
TopOf(p) == StyleGet(NodeAt(doc, ContentOf(p)), pTop)

\* The content block of p is shown in the margin at a position
ShownInMargin(p) == IsVisible(p) /\ ~IsConverted(p) /\ TopOf(p) # <<>>

\* C27: at a width of at least 1101, the content blocks of two sidenotes of
\* the same paragraph that are visible at the same time never have the same
\* top: blocks whose vertical extents do not overlap, the later one starting
\* at or below the bottom of the earlier one plus a gap, have different tops.
C27_VisibleBlocksDoNotOverlap ==
    DesktopMatches(view) =>
        \A p \in LaidOut : \A q \in LaidOut \ {p} :
            (Parent(p) = Parent(q) /\ ShownInMargin(p) /\ ShownInMargin(q)) =>
                Pixels(TopOf(p)) # Pixels(TopOf(q))

\* The toggle buttons of the page, and for a toggle the inline copy that
\* follows it in its wrapper
Toggles == Range(QueryAllClass(doc, cToggle))
InlineOf(t) == Append(Parent(t), t[Len(t)] + 1)

\* The state of the note of the toggle t in the document d
IsExpanded(d, t) == GetAttr(NodeAt(d, t), aAriaExpanded) = <<"t","r","u","e">>
IsHidden(d, t) == HasAttr(NodeAt(d, InlineOf(t)), aHidden)
IsActive(d, t) == HasClass(NodeAt(d, t), cActive)

\* A note's inline content is hidden exactly when its toggle says it is not
\* expanded, and the toggle is marked active exactly when it says expanded
HiddenIffCollapsed ==
    \A t \in Toggles :
        /\ IsHidden(doc, t) <=> ~IsExpanded(doc, t)
        /\ IsActive(doc, t) <=> IsExpanded(doc, t)

\* A step that converts sidenotes leaves every new toggle collapsed
ConvertsCollapsed ==
    (Start \/ ResizeMobile) =>
        \A t \in Range(QueryAllClass(doc', cToggle)) \ Toggles :
            IsHidden(doc', t) /\ ~IsExpanded(doc', t)

\* A click on a toggle flips its note and leaves the wrappers of the other
\* notes as they were
ClickFlipsOnlyItsNote ==
    \A t \in Toggles :
        ClickToggle(t) =>
            /\ IsExpanded(doc', t) # IsExpanded(doc, t)
            /\ \A u \in Toggles \ {t} : NodeAt(doc', Parent(u)) = NodeAt(doc, Parent(u))

\* C28: at a width of at most 1100, every sidenote is converted with its
\* inline content hidden and its toggle not expanded; a click on the toggle
\* of one note flips that note and changes no other note; and in every
\* reachable state a note's inline content is hidden exactly when its toggle
\* is not expanded, and the toggle is marked active exactly when it is.
C28_TogglesFlipOnlyTheirNote ==
    /\ []HiddenIffCollapsed
    /\ [][ConvertsCollapsed /\ ClickFlipsOnlyItsNote]_vars

\* The paragraphs that a selector of applyDropcaps matches
LeadParagraphs(d) ==
    {q \in Range(AllPaths(d)) : \E sel \in 1..4 : MatchesDropcapSelector(d, q, sel)}

HasDropcap(p) == \E q \in Range(AllPaths(p)) : q # <<>> /\ HasClass(NodeAt(p, q), cDropcap)

\* A paragraph the formatter does not skip: no dropcap yet and at least 50
\* characters of trimmed text
Qualifies(p) == ~HasDropcap(p) /\ Len(trim(TextContent(p))) >= DropcapMinLength

\* The end of the tag that starts at position i of serialised markup: its
\* first greater-than sign outside a quoted attribute value, or 0
TagEnd(text, i) ==
    LET ends == {j \in (i + 1)..Len(text) :
                    /\ text[j] = ">"
                    /\ Cardinality({k \in (i + 1)..(j - 1) : text[k] = "\""}) % 2 = 0}
    IN IF ends = {} THEN 0 ELSE Min(ends)

\* The position after the tags that start at position i
RECURSIVE SkipMarkupTags(_,_)
SkipMarkupTags(text, i) ==
    IF i <= Len(text) /\ text[i] = "<" /\ TagEnd(text, i) # 0
    THEN SkipMarkupTags(text, TagEnd(text, i) + 1)
    ELSE i

\* The position of the first character after the leading white space and
\* the leading tags of the markup
FirstAfterTags(text) == SkipMarkupTags(text, SkipSpaces(text))

IsLetter(c) == IsAlpha(c) \/ c \in {"É"}

\* The markup text with the character at position i wrapped in a dropcap span
WithDropcapAt(text, i) ==
    SubSeq(text, 1, i - 1)
    \o <<"<","s","p","a","n"," ","c","l","a","s","s","=","\"","d","r","o","p","c","a","p","\"",">">> \o <<text[i]>> \o <<"<","/","s","p","a","n",">">>
    \o SubSeq(text, i + 1, Len(text))

\* The formatter has treated the paragraph p as the claim says when p2 is
\* what it made of it
PlacedAt(p, p2, text, i) ==
    IF i <= Len(text) /\ IsLetter(text[i])
    THEN innerHTML(p2) = WithDropcapAt(text, i)
    ELSE p2 = p

\* A step that runs the formatter
RunsDropcaps == ApplyDropcapsStep \/ ApplyDropcapsCall

\* C29: every run of the formatter turns the markup of every lead paragraph
\* that has no dropcap and at least 50 characters of text, and that starts
\* with white space, tags and then a letter, into the same markup with that
\* letter alone wrapped in a dropcap span, so that taking the span away gives
\* the markup back; and it leaves the paragraph as it is when the first
\* character after the leading tags is not a letter.
C29_DropcapWrapsFirstLetter ==
    [][RunsDropcaps =>
          \A q \in LeadParagraphs(doc) :
              Qualifies(NodeAt(doc, q)) =>
                  PlacedAt(NodeAt(doc, q), NodeAt(doc', q), innerHTML(NodeAt(doc, q)),
                           FirstAfterTags(innerHTML(NodeAt(doc, q))))]_vars

\* The paragraphs of the page
Paragraphs(d) == {q \in Range(AllPaths(d)) : NodeAt(d, q).tag = tP}

\* The dropcap elements inside the paragraph p
DropcapsIn(p) == {q \in Range(AllPaths(p)) : q # <<>> /\ HasClass(NodeAt(p, q), cDropcap)}

\* The formatter skips the paragraph p
Skipped(p) == HasDropcap(p) \/ Len(trim(TextContent(p))) < DropcapMinLength

\* C30: every run of the formatter leaves as it is every paragraph that has
\* a dropcap already and every paragraph with fewer than 50 characters of
\* trimmed text; and in every reachable state, after any number of runs and
\* whatever number of selectors match, no paragraph has more than one
\* dropcap.
C30_AtMostOneDropcap ==
    /\ [](\A q \in Paragraphs(doc) : Cardinality(DropcapsIn(NodeAt(doc, q))) <= 1)
    /\ [][RunsDropcaps =>
             \A q \in Paragraphs(doc) :
                 Skipped(NodeAt(doc, q)) => NodeAt(doc', q) = NodeAt(doc, q)]_vars

\* The formatter has run three times, once from init and twice by a call,
\* over a lead paragraph that two or more selectors match and that has a
\* dropcap
C30_Witness ==
    /\ pc = "done"
    /\ events = MaxDropcapCalls
    /\ \E q \in LeadParagraphs(doc) :
           /\ Cardinality({sel \in 1..4 : MatchesDropcapSelector(doc, q, sel)}) >= 2
           /\ Cardinality(DropcapsIn(NodeAt(doc, q))) = 1

\* The lead paragraphs that the formatter would give a dropcap and that
\* have none
AwaitingDropcap ==
    {q \in LeadParagraphs(doc) :
        Qualifies(NodeAt(doc, q)) /\ DropcapMatch(innerHTML(NodeAt(doc, q))) # 0}

\* The sidenotes are in the mode of the window's width: at most 1100 wide
\* each one with a content block is converted, wider each one is not and
\* has its hover handlers
ModeSetUp ==
    \A p \in LaidOut :
        IF MobileMatches(view) THEN IsConverted(p)
        ELSE ~IsConverted(p) /\ HoverHandlersOn(p) > 0

\* C31: once init() has returned, and also while the glossary request is
\* pending or its body is being read, however long that takes, no lead
\* paragraph is left that qualifies for a dropcap and has none, and the
\* sidenotes are in the mode of the window's width.
C31_IndependentOfLoad ==
    (pc \in {"fetching", "reading"} /\ ~mqPending) =>
        AwaitingDropcap = {} /\ ModeSetUp

\* C32: the glossary location that loadDefinitions fetches is
\* '../definitions.html' for a page path that contains '/pages/writing/',
\* else 'definitions.html' for one that contains '/pages/', else
\* 'pages/definitions.html'; linkDefinitions computes the same value for
\* the same path, and every definition link a pass created has a destination
\* that is this location followed by '#'.
C32_LinkPrefixIsFetchedLocation ==
    /\ DefinitionsPath(pathname) =
           (IF includes(pathname, <<"/","p","a","g","e","s","/","w","r","i","t","i","n","g","/">>) THEN <<".",".","/","d","e","f","i","n","i","t","i","o","n","s",".","h","t","m","l">>
            ELSE IF includes(pathname, <<"/","p","a","g","e","s","/">>) THEN <<"d","e","f","i","n","i","t","i","o","n","s",".","h","t","m","l">>
            ELSE <<"p","a","g","e","s","/","d","e","f","i","n","i","t","i","o","n","s",".","h","t","m","l">>)
    /\ LinkPrefix(pathname) = DefinitionsPath(pathname)
    /\ AfterPass =>
           \A p \in CreatedDefinitionLinks :
               IsPrefix(DefinitionsPath(pathname) \o <<"#">>, GetAttr(NodeAt(doc, p), aHref))

\* A pass has created a definition link on a page below /pages/writing/
C32_Witness ==
    /\ AfterPass
    /\ CreatedDefinitionLinks # {}
    /\ includes(pathname, <<"/","p","a","g","e","s","/","w","r","i","t","i","n","g","/">>)

\* LinkPopup.excerpts as the documentation describes it: the previews of
\* internal pages by destination path; here one entry, for the page that
\* the plain anchor of the ninth page leads to
Excerpts ==
    { [path |-> <<"x",".","h","t","m","l">>, title |-> <<"P","a","g","e"," ","T","i","t","l","e">>,
       text |-> <<"B","r","i","e","f"," ","d","e","s","c","r","i","p","t","i","o","n"," ","t","h","a","t"," ","a","p","p","e","a","r","s"," ","i","n"," ","p","o","p","u","p"," ","p","r","e","v","i","e","w",".">>] }

\* The anchors of the page whose destination is a key of the table
ExcerptLinks ==
    {p \in Range(AllPaths(doc)) :
        /\ IsAnchor(NodeAt(doc, p))
        /\ \E e \in Excerpts : e.path = GetAttr(NodeAt(doc, p), aHref)}

\* C33: once init has finished, every anchor whose destination is a key of
\* the excerpts table has the popup's handlers, so that a hover or a focus
\* on it runs show; and whenever the popup's content was taken from such an
\* anchor it is the title and the excerpt of the anchor's entry.
C33_ExcerptLinksHavePopup ==
    pc = "done" =>
        \A p \in ExcerptLinks :
            /\ Attached(p) >= 1
            /\ popupContent.href = GetAttr(NodeAt(doc, p), aHref) =>
                   \E e \in Excerpts :
                       /\ e.path = popupContent.href
                       /\ popupContent.title = e.title
                       /\ popupContent.excerpt = e.text

\* The content blocks of the sidenote p in the document d
ContentBlocks(d, p) ==
    {c \in Range(AllPaths(d)) :
        IsPrefix(p, c) /\ c # p /\ HasClass(NodeAt(d, c), cSidenoteContent)}

\* A step of the sidenote modules or of the event loop: not one of the
\* steps in which AutoEnhance.init rewrites the page
OutsideAutoEnhance == pc \notin {"loaded", "dropcapped", "linked"}

\* C34: a step of the sidenote modules, be it the setup at init, a change
\* callback of a media query, a hover, a focus or a click on a toggle,
\* leaves the sidenote elements of the page the same ones in the same
\* places, leaves each of them its content blocks (one, in the documented
\* markup), and leaves the children of every content block as they were.
C34_SidenotesKeepContent ==
    [][OutsideAutoEnhance =>
          /\ QueryAllClass(doc', cSidenote) = QueryAllClass(doc, cSidenote)
          /\ \A p \in SidenotePaths :
                 /\ ContentBlocks(doc', p) = ContentBlocks(doc, p)
                 /\ \A c \in ContentBlocks(doc, p) :
                        NodeAt(doc', c).kids = NodeAt(doc, c).kids]_vars

\* A sidenote with one content block was converted and its toggle was
\* clicked, and one was converted, reverted and shown in the margin
C34_Witness ==
    \/ \E t \in Toggles :
           /\ IsExpanded(doc, t)
           /\ Cardinality(ContentBlocks(doc, SidenoteOf(doc, t))) = 1
    \/ /\ events = MaxSidenoteEvents
       /\ \E p \in LaidOut : IsVisible(p) /\ HasAttr(NodeAt(doc, NumberOf(p)), aStyle)

\* The page has the main content column
HasContentArea == HasElementById(doc, <<"c","o","n","t","e","n","t">>)

\* The style attribute of the content block of the sidenote p after the step
StyleAfter(p) == GetAttr(NodeAt(doc', ContentOf(p)), aStyle)

\* A step of the sidenote modules leaves a sidenote without a content block
\* as it was
BlocklessUntouched ==
    \A p \in SidenotePaths \ LaidOut : NodeAt(doc', p) = NodeAt(doc, p)

\* A hover or a focus on a page without the main content column leaves
\* the position and the visibility of the content block as they were
UnplacedUnchanged ==
    \A p \in LaidOut :
        (~HasContentArea /\ PointsAt(p)) =>
            /\ StyleAfter(p) = GetAttr(NodeAt(doc, ContentOf(p)), aStyle)
            /\ VisibleAfter(p) <=> IsVisible(p)

\* C35: a sidenote without a content block is left as it is by every step
\* of the sidenote modules, and on a page without the main content column a
\* hover over a sidenote or a focus of its number label changes neither the
\* position nor the visibility of its content block.
C35_AbsentTargetsAreNoOps ==
    [][OutsideAutoEnhance => BlocklessUntouched /\ UnplacedUnchanged]_vars

\* A string without the occurrences of another, from left to right
RECURSIVE Without(_,_)
Without(s, sub) ==
    IF s = <<>> \/ sub = <<>> THEN s
    ELSE IF StartsWithAt(s, 1, sub) THEN Without(SubSeq(s, Len(sub) + 1, Len(s)), sub)
    ELSE <<Head(s)>> \o Without(Tail(s), sub)

\* The pairs of registered terms of which the second has its display form
\* inside the display form of the first
NestedTerms ==
    {pair \in Range(definitions) \X Range(definitions) :
        pair[1] # pair[2] /\ includes(pair[1].term, pair[2].term)}

\* The text nodes the pass replaced in which the shorter term of the pair
\* matches only where the longer one does
OverlapOnly(pair) ==
    {q \in Rewritten :
        /\ includes(NodeAt(doc0, q).s, pair[1].term)
        /\ ~RegexTest(TermRegex(pair[2]), Without(NodeAt(doc0, q).s, pair[1].term))}

\* The occurrences in the text node q are linked as the longer term only
LongestOnly(pair, q) ==
    /\ LinksAt(q) # {}
    /\ \A p \in LinksAt(q) :
          /\ TextContent(NodeAt(doc, p)) = pair[1].term
          /\ DataOf(p).title = pair[1].term
          /\ DataOf(p).excerpt = pair[1].preview

\* C36: after the first annotation pass with a registry that holds a term
\* and a longer term containing it, a text node in which the two match at
\* the same places has links for the longer term only, and the page is the
\* one the pass makes from the registry filled in the opposite order.
C36_LongestMatchAnyOrder ==
    (passes = 1 /\ pc = "linked") =>
        /\ \A pair \in NestedTerms : \A q \in OverlapOnly(pair) : LongestOnly(pair, q)
        /\ doc = linkDefinitions(doc0, Reversed(definitions), pathname)

\* C37: once AutoEnhance.init has attached the listeners after its
\* annotation pass, every definition link of the document has popup
\* handlers, whatever the viewport has done since: the links inside the
\* inline copy of a converted sidenote included.
C37_EveryLinkHasHandlers ==
    (pc = "done" /\ ~mqPending) =>
        \A link \in DefinitionLinks(doc) : Attached(link) >= 1

\* C38: no definition link, hand-authored or created by the annotation
\* pass, ever has the popup handlers more than once, and when
\* AutoEnhance.init is done each of them has them exactly once.
C38_HandlersAttachedOnce ==
    /\ \A link \in DefinitionLinks(doc) : Attached(link) <= 1
    /\ pc = "done" => \A link \in DefinitionLinks(doc) : Attached(link) = 1

\* C39: on a touch device, whenever the popup is visible and activeLink is
\* set, the title, the preview and the go-to destination in the popup are
\* those of the active link, whatever taps, focus changes, close clicks and
\* touches elsewhere came before.
C39_PopupShowsActiveAnchor ==
    (isTouch /\ popupShown /\ activeLink # NoLink /\ activeLink.path # NoPath) =>
        popupContent = DataOf(activeLink.path)

\* The mobile toggle wrappers inside the sidenote p
WrappersOf(p) ==
    {w \in Range(QueryAllClass(doc, cWrapper)) : IsPrefix(p, w) /\ w # p}

\* C40: every sidenote holds at most one mobile toggle wrapper, and holds
\* one exactly when it has the converted marker; a sidenote without a
\* content block has neither; and convertToInline on a page that is in
\* mobile mode leaves the page as it is.
C40_OneWrapperIffConverted ==
    /\ \A p \in SidenotePaths :
          /\ Cardinality(WrappersOf(p)) <= 1
          /\ IsConverted(p) <=> WrappersOf(p) # {}
          /\ ContentOf(p) = NoPath => ~IsConverted(p)
    /\ (Settled /\ MobileMatches(view)) => convertToInline(Notes) = Notes

\* A page in mobile mode after a round trip over the threshold, on which one
\* sidenote is converted and another, without a content block, is not
C40_Witness ==
    /\ Settled
    /\ MobileMatches(view)
    /\ events >= 2
    /\ \E p \in LaidOut : IsConverted(p) /\ Cardinality(WrappersOf(p)) = 1
    /\ SidenotePaths \ LaidOut # {}
====
